---- MODULE Spec2Model ----
(***************************************************************************)
(* Model of the forex_data_extractor pipeline: request validation          *)
(* (models.py), date utilities (utils.py), fetch / parse / normalise /     *)
(* assemble (forex_data_extractor/scraper.py) and export                   *)
(* (forex_data_extractor/export.py).                                       *)
(*                                                                         *)
(* Representation.                                                         *)
(*   - A calendar date is the integer YYYYMMDD; integer order is           *)
(*     chronological order.                                                *)
(*   - A text is a sequence of tokens.  Currency and price texts are       *)
(*     sequences of one-character strings.  A file name is a sequence of   *)
(*     name tokens ("out", ".csv", "/", ...).  A date text is a sequence   *)
(*     of words: a month name, a digit string, "," "-" "/" or " ".         *)
(*   - Python's None is NoText for texts and None for scalars.             *)
(***************************************************************************)
EXTENDS Integers, Sequences, FiniteSets, TLC

VARIABLES
    args,        \* arguments of the call being served
    built,       \* outcome of the last ExtractionRequest construction
    pc,          \* position of the get_forex_data / extract_forex_data call
    request,     \* the validated ExtractionRequest of the running extraction
    session,     \* browser session: "none", "open", "closed"
    html,        \* page content retrieved by page.content()
    error,       \* text of the exception being handled
    raw_data,    \* rows kept by the row scan
    result,      \* ForexExtractionResult under construction / returned
    exports,     \* FileOperationResult list of the last export_result call
    files,       \* file system: path -> content, for the paths that exist
    nexports     \* number of export calls made so far

vars == <<args, built, pc, request, session, html, error, raw_data, result, exports, files, nexports>>

None == "<None>"
NoText == <<"<None>">>

(***************************************************************************)
(* Generic text helpers (str.strip, str.upper, str.isalpha, `in`).         *)
(***************************************************************************)
RECURSIVE LStrip(_, _)
LStrip(s, blank) ==
    IF s # <<>> /\ Head(s) = blank THEN LStrip(Tail(s), blank) ELSE s

RECURSIVE RStrip(_, _)
RStrip(s, blank) ==
    IF s # <<>> /\ s[Len(s)] = blank THEN RStrip(SubSeq(s, 1, Len(s) - 1), blank) ELSE s

Strip(s, blank) == RStrip(LStrip(s, blank), blank)

Contains(s, c) == \E i \in 1..Len(s) : s[i] = c

Without(s, c) == SelectSeq(s, LAMBDA x : x # c)

LowerLetters == {"u", "s", "d"}
UpperLetters == {"U", "S", "D"}

UpperChar(c) ==
    CASE c = "u" -> "U"
      [] c = "s" -> "S"
      [] c = "d" -> "D"
      [] OTHER -> c

Upper(s) == [i \in 1..Len(s) |-> UpperChar(s[i])]

IsAlpha(s) == s # <<>> /\ \A i \in 1..Len(s) : s[i] \in LowerLetters \cup UpperLetters

(***************************************************************************)
(* models.py: ExtractionRequest and its validators.                        *)
(***************************************************************************)
Today == 20240615
MinEndDate == 20050101

\* Declaration order of the fields of ExtractionRequest.
FieldOrder ==
    <<"currency_pair", "start_date", "end_date", "output_file", "append_to_file",
      "output_format", "min_end_date", "max_start_date">>

FieldIndex(name) == CHOOSE i \in 1..Len(FieldOrder) : FieldOrder[i] = name

\* values.get(name, default) inside the validator of `field`: `values` holds
\* only the fields declared before `field` (a supplied bound is a one-element
\* sequence, an omitted one the empty sequence).
ValuesGet(a, field, name, default) ==
    IF FieldIndex(name) < FieldIndex(field) /\ a[name] # <<>> THEN a[name][1] ELSE default

Ok(v) == [ok |-> TRUE, value |-> v, msg |-> ""]
Err(m) == [ok |-> FALSE, value |-> None, msg |-> m]

validate_currency_pair(ticker) ==
    IF ticker = <<>> THEN Err("Currency pair cannot be empty")
    ELSE LET t == Strip(Upper(ticker), " ")
         IN  IF ~IsAlpha(t) THEN Err("Currency pair must contain only letters")
             ELSE Ok(t)

validate_start_date_constraints(date, a) ==
    LET max_start_date == ValuesGet(a, "start_date", "max_start_date", Today)
    IN  IF date > max_start_date THEN Err("Start date cannot be later than max_start_date")
        ELSE Ok(date)

validate_end_date_constraints(date, a) ==
    LET min_end_date == ValuesGet(a, "end_date", "min_end_date", MinEndDate)
    IN  IF date < min_end_date THEN Err("End date cannot be earlier than min_end_date")
        ELSE Ok(date)

InvalidChars == {"<", ">", ":", "\"", "/", "\\", "|", "?", "*"}

validate_output_file(file_name) ==
    IF file_name = NoText THEN Ok(NoText)
    ELSE LET f == Strip(file_name, " ")
         IN  IF f = <<>> THEN Ok(NoText)
             ELSE IF \E c \in InvalidChars : Contains(f, c)
                  THEN Err("Output filename cannot contain a reserved character")
                  ELSE Ok(f)

\* model_validator(mode='after'); r is the model built from the validated fields.
validate_date_range(r) ==
    IF r.start_date < r.end_date
    THEN Err("Start date cannot be earlier than the end date.")
    ELSE Ok(r)

\* Per-field validation: one outcome per field, all fields are tried.
FieldOutcomes(a) ==
    [currency_pair |-> validate_currency_pair(a.currency_pair),
     start_date    |-> validate_start_date_constraints(a.start_date, a),
     end_date      |-> validate_end_date_constraints(a.end_date, a),
     output_file   |-> validate_output_file(a.output_file)]

FieldErrors(a) ==
    LET o == FieldOutcomes(a)
    IN  {[loc |-> f, msg |-> o[f].msg] : f \in {g \in DOMAIN o : ~o[g].ok}}

\* Mutant: construction stops at the first field that fails.
ExtractionRequestFirstError(a) ==
    LET o == FieldOutcomes(a)
        failed == {i \in 1..4 : ~o[FieldOrder[i]].ok}
        first == CHOOSE i \in failed : \A j \in failed : i <= j
    IN  IF failed # {}
        THEN [ok |-> FALSE, req |-> None,
              errors |-> {[loc |-> FieldOrder[first], msg |-> o[FieldOrder[first]].msg]}]
        ELSE IF a.start_date < a.end_date
             THEN [ok |-> FALSE, req |-> None,
                   errors |-> {[loc |-> "__root__",
                                msg |-> "Start date cannot be earlier than the end date."]}]
             ELSE [ok |-> TRUE, req |-> a, errors |-> {}]

\* ExtractionRequest(**a): the field validators run in declaration order and
\* their errors are collected; the after-validator runs only on a model whose
\* fields all validated.
ExtractionRequest(a) ==
    LET o == FieldOutcomes(a)
        errs == FieldErrors(a)
        r == [currency_pair  |-> o.currency_pair.value,
              start_date     |-> a.start_date,
              end_date       |-> a.end_date,
              output_file    |-> o.output_file.value,
              append_to_file |-> a.append_to_file,
              output_format  |-> a.output_format,
              min_end_date   |-> IF a.min_end_date = <<>> THEN MinEndDate ELSE a.min_end_date[1],
              max_start_date |-> IF a.max_start_date = <<>> THEN Today ELSE a.max_start_date[1]]
    IN  IF errs # {} THEN [ok |-> FALSE, req |-> None, errors |-> errs]
        ELSE IF ~validate_date_range(r).ok
             THEN [ok |-> FALSE, req |-> None,
                   errors |-> {[loc |-> "__root__", msg |-> validate_date_range(r).msg]}]
             ELSE [ok |-> TRUE, req |-> r, errors |-> {}]

\* create_extraction_request: the factory passes no bounds of its own.
create_extraction_request(currency_pair, start_date, end_date, output_file, append_to_file, output_format) ==
    ExtractionRequest([currency_pair  |-> currency_pair,
                       start_date     |-> start_date,
                       end_date       |-> end_date,
                       output_file    |-> output_file,
                       append_to_file |-> append_to_file,
                       output_format  |-> output_format,
                       min_end_date   |-> <<>>,
                       max_start_date |-> <<>>])

\* utils.validate_date_range(start, end, max_start, min_end): the first
\* violated check raises; None when the range is valid.
utils_validate_date_range(start_date, end_date, max_start_date, min_end_date) ==
    LET maxs == IF max_start_date = <<>> THEN Today ELSE max_start_date[1]
        mine == IF min_end_date = <<>> THEN MinEndDate ELSE min_end_date[1]
    IN  IF start_date > maxs THEN "Start date cannot be later than max_start_date"
        ELSE IF end_date < mine THEN "End date cannot be earlier than min_end_date"
        ELSE IF start_date < end_date THEN "Start date cannot be earlier than the end date."
        ELSE None

(***************************************************************************)
(* utils.py: parse_date_string.  datetime.strptime on a word sequence:     *)
(* each format fixes the kinds of the words in order, then the check of    *)
(* datetime() applies (a failure of either is the ValueError that moves on *)
(* to the next format).                                                    *)
(***************************************************************************)
NoDate == 0

MonthAbbr ==
    [Jan |-> 1, Feb |-> 2, Mar |-> 3, Apr |-> 4, May |-> 5, Jun |-> 6,
     Jul |-> 7, Aug |-> 8, Sep |-> 9, Oct |-> 10, Nov |-> 11, Dec |-> 12]

MonthFull ==
    [January |-> 1, February |-> 2, March |-> 3, April |-> 4, May |-> 5, June |-> 6,
     July |-> 7, August |-> 8, September |-> 9, October |-> 10, November |-> 11,
     December |-> 12]

\* int() of the digit strings that occur in the date texts of the model.
NumVal ==
    ("01" :> 1) @@ ("02" :> 2) @@ ("03" :> 3) @@ ("04" :> 4) @@ ("05" :> 5) @@ ("06" :> 6)
    @@ ("09" :> 9) @@ ("12" :> 12) @@ ("13" :> 13) @@ ("30" :> 30) @@ ("31" :> 31)
    @@ ("2023" :> 2023) @@ ("2024" :> 2024)

IsNum(t) == t \in DOMAIN NumVal

IsLeap(y) == (y % 4 = 0 /\ y % 100 # 0) \/ y % 400 = 0

DaysInMonth(y, m) ==
    IF m = 2 THEN (IF IsLeap(y) THEN 29 ELSE 28)
    ELSE IF m \in {4, 6, 9, 11} THEN 30 ELSE 31

\* datetime(y, m, d): ValueError (NoDate) when the day does not exist; %Y
\* takes four digits, %m and %d at most two.
MakeDate(y, m, d) ==
    IF y \in 1000..9999 /\ m \in 1..12 /\ d \in 1..DaysInMonth(y, m)
    THEN y * 10000 + m * 100 + d
    ELSE NoDate

\* The three numbers of a text of the form n <sep> n <sep> n, else <<>>.
Numeric(s, sep) ==
    IF Len(s) = 5 /\ IsNum(s[1]) /\ s[2] = sep /\ IsNum(s[3]) /\ s[4] = sep /\ IsNum(s[5])
    THEN <<NumVal[s[1]], NumVal[s[3]], NumVal[s[5]]>>
    ELSE <<>>

\* The month, day and year of a text of the form <name> n , n, else <<>>.
Named(s, names) ==
    IF Len(s) = 4 /\ s[1] \in DOMAIN names /\ IsNum(s[2]) /\ s[3] = "," /\ IsNum(s[4])
    THEN <<names[s[1]], NumVal[s[2]], NumVal[s[4]]>>
    ELSE <<>>

strptime(s, fmt) ==
    CASE fmt = "%b %d, %Y" ->
            LET f == Named(s, MonthAbbr) IN IF f = <<>> THEN NoDate ELSE MakeDate(f[3], f[1], f[2])
      [] fmt = "%B %d, %Y" ->
            LET f == Named(s, MonthFull) IN IF f = <<>> THEN NoDate ELSE MakeDate(f[3], f[1], f[2])
      [] fmt = "%Y-%m-%d" ->
            LET f == Numeric(s, "-") IN IF f = <<>> THEN NoDate ELSE MakeDate(f[1], f[2], f[3])
      [] fmt = "%m/%d/%Y" ->
            LET f == Numeric(s, "/") IN IF f = <<>> THEN NoDate ELSE MakeDate(f[3], f[1], f[2])
      [] fmt = "%d/%m/%Y" ->
            LET f == Numeric(s, "/") IN IF f = <<>> THEN NoDate ELSE MakeDate(f[3], f[2], f[1])

\* Mutant: the two slash formats in the other order.
DateFormatsDayFirst == <<"%b %d, %Y", "%B %d, %Y", "%Y-%m-%d", "%d/%m/%Y", "%m/%d/%Y">>

date_formats == <<"%b %d, %Y", "%B %d, %Y", "%Y-%m-%d", "%m/%d/%Y", "%d/%m/%Y">>

RECURSIVE TryFormats(_, _)
TryFormats(s, i) ==
    IF i > Len(date_formats) THEN NoDate
    ELSE IF strptime(s, date_formats[i]) # NoDate THEN strptime(s, date_formats[i])
    ELSE TryFormats(s, i + 1)

parse_date_string(date_str) == TryFormats(Strip(date_str, " "), 1)

(***************************************************************************)
(* models.py: PriceDataPoint.  A Decimal is [sign, coeff, exp]: the value  *)
(* (-1)^sign * coeff / 10^exp, which also fixes its str().  The grammar    *)
(* covered is [+-]digits[.digits] with at least one digit.                 *)
(***************************************************************************)
Digits == {"0", "1", "2", "3", "4", "5"}

DigitVal(c) ==
    CASE c = "0" -> 0 [] c = "1" -> 1 [] c = "2" -> 2
      [] c = "3" -> 3 [] c = "4" -> 4 [] c = "5" -> 5

RECURSIVE Coeff(_)
Coeff(ds) == IF ds = <<>> THEN 0 ELSE Coeff(SubSeq(ds, 1, Len(ds) - 1)) * 10 + DigitVal(ds[Len(ds)])

NoDecimal == [sign |-> 0, coeff |-> 0, exp |-> 0, valid |-> FALSE]

\* Decimal(text): InvalidOperation is NoDecimal.
Decimal(p) ==
    LET signed == p # <<>> /\ Head(p) \in {"+", "-"}
        body == IF signed THEN Tail(p) ELSE p
        dots == {i \in 1..Len(body) : body[i] = "."}
        ds == Without(body, ".")
    IN  IF Cardinality(dots) <= 1 /\ ds # <<>> /\ \A i \in 1..Len(ds) : ds[i] \in Digits
        THEN [sign  |-> IF signed /\ Head(p) = "-" THEN 1 ELSE 0,
              coeff |-> Coeff(ds),
              exp   |-> IF dots = {} THEN 0 ELSE Len(body) - (CHOOSE i \in dots : TRUE),
              valid |-> TRUE]
        ELSE NoDecimal

\* Mutant: `price < 0` where the code has `price <= 0`.
IsNonNegative(dec) == dec.sign = 0 \/ dec.coeff = 0

IsPositive(dec) == dec.sign = 0 /\ dec.coeff > 0

parse_close_price(price) ==
    LET p == Strip(Without(price, ","), " ")
    IN  IF p = <<>> THEN Err("Close price cannot be empty")
        ELSE IF ~Decimal(p).valid THEN Err("Invalid close price format")
        ELSE IF ~IsPositive(Decimal(p)) THEN Err("Invalid close price format")
        ELSE Ok(Decimal(p))

validate_date_string(v) ==
    IF v = <<>> \/ Strip(v, " ") = <<>> THEN Err("Date string cannot be empty")
    ELSE Ok(Strip(v, " "))

\* PriceDataPoint(date=..., close_price=..., date_string=...): ValidationError
\* when a validator rejects its field.
PriceDataPoint(date, close_price, date_string) ==
    LET c == parse_close_price(close_price)
        d == validate_date_string(date_string)
    IN  IF c.ok /\ d.ok
        THEN [ok |-> TRUE,
              point |-> [date |-> date, close_price |-> c.value, date_string |-> d.value]]
        ELSE [ok |-> FALSE, point |-> None]

(***************************************************************************)
(* scraper.py: the row scan of _scrape_yahoo_finance and                   *)
(* _convert_to_data_points.  A page row is [date_text, close_price], each  *)
(* a text or NoText (the cell selector found nothing).                     *)
(***************************************************************************)
Falsy(text) == text = NoText \/ text = <<>>

\* Mutant: the row scan without the date-range test.
ScanRowNoRange(kept, row, req) ==
    IF Falsy(row.date_text) \/ Falsy(row.close_price) THEN kept
    ELSE IF parse_date_string(Strip(row.date_text, " ")) = NoDate THEN kept
    ELSE Append(kept, [date_text |-> Strip(row.date_text, " "),
                       close_price |-> Strip(row.close_price, " ")])

\* Mutant: the date-range test with strict comparisons.
ScanRowStrictRange(kept, row, req) ==
    IF Falsy(row.date_text) \/ Falsy(row.close_price) THEN kept
    ELSE LET row_date == parse_date_string(Strip(row.date_text, " "))
         IN  IF row_date # NoDate /\ row_date < req.start_date /\ row_date > req.end_date
             THEN Append(kept, [date_text |-> Strip(row.date_text, " "),
                                close_price |-> Strip(row.close_price, " ")])
             ELSE kept

\* One iteration of `for row in rows`: the raw_data after the row.
ScanRow(kept, row, req) ==
    IF Falsy(row.date_text) \/ Falsy(row.close_price) THEN kept
    ELSE LET date_text == Strip(row.date_text, " ")
             close_price == Strip(row.close_price, " ")
             row_date == parse_date_string(date_text)
         IN  IF row_date = NoDate THEN kept
             ELSE IF row_date <= req.start_date /\ row_date >= req.end_date
                  THEN Append(kept, [date_text |-> date_text, close_price |-> close_price])
                  ELSE kept

RECURSIVE ScanRows(_, _, _)
ScanRows(kept, rows, req) ==
    IF rows = <<>> THEN kept
    ELSE ScanRows(ScanRow(kept, Head(rows), req), Tail(rows), req)

\* list.sort(key=lambda point: point.date): stable, ascending.
RECURSIVE InsertByDate(_, _)
InsertByDate(sorted, p) ==
    IF sorted = <<>> THEN <<p>>
    ELSE IF sorted[Len(sorted)].date <= p.date THEN Append(sorted, p)
    ELSE Append(InsertByDate(SubSeq(sorted, 1, Len(sorted) - 1), p), sorted[Len(sorted)])

\* Mutant: the points stay in page order.
SortByDateSkipped(points) == points

RECURSIVE SortByDate(_)
SortByDate(points) ==
    IF points = <<>> THEN <<>>
    ELSE InsertByDate(SortByDate(SubSeq(points, 1, Len(points) - 1)), points[Len(points)])

\* One iteration of `for date_str, price_str in raw_data`.
ConvertRow(data_points, raw) ==
    LET parsed_date == parse_date_string(raw.date_text)
        p == PriceDataPoint(parsed_date, raw.close_price, raw.date_text)
    IN  IF parsed_date # NoDate /\ p.ok THEN Append(data_points, p.point) ELSE data_points

RECURSIVE ConvertRows(_, _)
ConvertRows(data_points, raws) ==
    IF raws = <<>> THEN data_points
    ELSE ConvertRows(ConvertRow(data_points, Head(raws)), Tail(raws))

_convert_to_data_points(raws) == SortByDate(ConvertRows(<<>>, raws))

(***************************************************************************)
(* models.py: ExtractionMetadata and ForexExtractionResult.                *)
(***************************************************************************)
\* base_url.format(**request.to_url_params())
Url(req) == [currency_pair |-> req.currency_pair, period1 |-> req.end_date, period2 |-> req.start_date]

ExtractionMetadata(req, now) ==
    [extraction_timestamp |-> now,
     total_points         |-> 0,
     currency_pair        |-> req.currency_pair,
     date_range_start     |-> req.start_date,
     date_range_end       |-> req.end_date,
     url_accessed         |-> Url(req)]

SeqMax(xs) == CHOOSE x \in {xs[i] : i \in 1..Len(xs)} : \A j \in 1..Len(xs) : xs[j] <= x
SeqMin(xs) == CHOOSE x \in {xs[i] : i \in 1..Len(xs)} : \A j \in 1..Len(xs) : xs[j] >= x

\* validator sort_data_points
sort_data_points(v) == IF v # <<>> THEN SortByDate(v) ELSE v

\* Mutant: the validator leaves total_points as the metadata was built.
UpdateMetadataKeepsTotal(data_points, metadata) ==
    LET dates == [i \in 1..Len(data_points) |-> data_points[i].date]
    IN  [metadata EXCEPT
            !.date_range_start = IF data_points # <<>> THEN SeqMax(dates) ELSE @,
            !.date_range_end = IF data_points # <<>> THEN SeqMin(dates) ELSE @]

\* Mutant: the validator leaves the date range as the metadata was built.
UpdateMetadataKeepsRange(data_points, metadata) ==
    [metadata EXCEPT !.total_points = Len(data_points)]

\* model_validator update_metadata_total
update_metadata_total(data_points, metadata) ==
    LET dates == [i \in 1..Len(data_points) |-> data_points[i].date]
    IN  [metadata EXCEPT
            !.total_points = Len(data_points),
            !.date_range_start = IF data_points # <<>> THEN SeqMax(dates) ELSE @,
            !.date_range_end = IF data_points # <<>> THEN SeqMin(dates) ELSE @]

ForexExtractionResult(data_points, metadata, success, error_message) ==
    [data_points   |-> sort_data_points(data_points),
     metadata      |-> update_metadata_total(sort_data_points(data_points), metadata),
     success       |-> success,
     error_message |-> error_message]

NoResult == [data_points |-> <<>>, metadata |-> None, success |-> FALSE, error_message |-> None]

(***************************************************************************)
(* export.py: ForexDataExporter.  The file system is a function from the   *)
(* paths that exist to their contents; a path is [dir, name].  A CSV file  *)
(* is a sequence of lines, a JSON file a document.                         *)
(***************************************************************************)
OutputDir == "Extracted_Data"

EndsWith(name, tok) == name # <<>> /\ name[Len(name)] = tok

\* str.replace(old, new): every occurrence.
Replace(name, old, new) == [i \in 1..Len(name) |-> IF name[i] = old THEN new ELSE name[i]]

\* os.path.basename: what follows the last separator.
RECURSIVE Basename(_)
Basename(name) ==
    IF name = <<>> \/ name[Len(name)] = "/" THEN <<>>
    ELSE Append(Basename(SubSeq(name, 1, Len(name) - 1)), name[Len(name)])

\* Mutant: the file name as given, relative to the working directory.
FullPathInWorkingDirectory(filename) == [dir |-> ".", name |-> filename]

FullPath(filename) == [dir |-> OutputDir, name |-> Basename(filename)]

IsDir(fs, path) == path \in DOMAIN fs /\ fs[path].fmt = "dir"

\* os.path.isfile: a directory at the path is not a file.
IsFile(fs, path) == path \in DOMAIN fs /\ ~IsDir(fs, path)

Write(fs, path, content) == [q \in DOMAIN fs \cup {path} |-> IF q = path THEN content ELSE fs[q]]

\* Exceptions: the class raised and str(e).
NoException == [type |-> "none", text |-> None]

Raise(type, text) == [type |-> type, text |-> text]

\* The classes an exception is an instance of (IOError is OSError).
Bases(type) ==
    CASE type = "KeyError" -> {"KeyError", "LookupError", "Exception"}
      [] type = "IsADirectoryError" -> {"IsADirectoryError", "OSError", "Exception"}
      [] type = "JSONDecodeError" -> {"JSONDecodeError", "ValueError", "Exception"}
      [] type = "AttributeError" -> {"AttributeError", "Exception"}
      [] OTHER -> {}

\* `except classes`: whether the clause handles e.
Catches(classes, e) == Bases(e.type) \cap classes # {}

\* open(full_path, mode): a directory cannot be opened as a file.
open(fs, path) ==
    IF IsDir(fs, path) THEN Raise("IsADirectoryError", "[Errno 21] Is a directory")
    ELSE NoException

Truthy(text) == ~Falsy(text)

get_default_filename(req, extension) == req.currency_pair \o <<"_historical_data", extension>>

_get_output_filename(req, extension) ==
    IF Truthy(req.output_file)
    THEN IF EndsWith(req.output_file, extension) THEN req.output_file
         ELSE Append(req.output_file, extension)
    ELSE get_default_filename(req, extension)

CsvHeader == [kind |-> "header", date |-> <<>>, close |-> NoDecimal]

\* ForexExtractionResult.to_csv_rows, as written by writer.writerow
to_csv_rows(res) ==
    [i \in 1..Len(res.data_points) |->
        [kind |-> "row", date |-> res.data_points[i].date_string,
         close |-> res.data_points[i].close_price]]

FileOperationResult(path, format_type, rows_written, success, error_message) ==
    [file_path |-> path, format_type |-> format_type, rows_written |-> rows_written,
     success |-> success, error_message |-> error_message]

NoOutcome == FileOperationResult([dir |-> OutputDir, name |-> <<>>], "none", 0, FALSE, None)

\* Mutant: the handler of the export methods catches I/O errors only.
ExportHandlerIOErrorOnly == {"OSError"}

\* Mutant: the export methods have no handler of their own.
ExportHandlerNone == {}

\* `except Exception as e` of _export_to_csv and _export_to_json.
ExportHandler == {"Exception"}

\* The handler: a failed outcome with str(e), the file system as the body
\* left it; an exception the clause does not name leaves the method.
ExportFailed(fs, path, format_type, e) ==
    IF Catches(ExportHandler, e)
    THEN [fs |-> fs, outcome |-> FileOperationResult(path, format_type, 0, FALSE, e.text),
          raised |-> NoException]
    ELSE [fs |-> fs, outcome |-> NoOutcome, raised |-> e]

\* Mutant: `file_exists` without `and request.append_to_file`.
CsvFileExistsIgnoresMode(fs, path, req) == IsFile(fs, path)

\* Whether the header row is written: `file_exists` of _export_to_csv.
CsvFileExists(fs, path, req) == IsFile(fs, path) /\ req.append_to_file

\* Mutant: the CSV export skips rows whose date the file already holds.
CsvRowsNewDates(kept, res) ==
    SelectSeq(to_csv_rows(res),
        LAMBDA row : \A i \in 1..Len(kept) : kept[i].date # row.date)

\* lines 101-104: every row of the result is written, in the result's order.
CsvRows(kept, res) == to_csv_rows(res)

_export_to_csv(fs, res, req) ==
    LET full_path == FullPath(_get_output_filename(req, ".csv"))
        file_exists == CsvFileExists(fs, full_path, req)
        opened == open(fs, full_path)
        \* open(mode='a') keeps what the file holds, open(mode='w') truncates
        kept == IF req.append_to_file /\ IsFile(fs, full_path) /\ fs[full_path].fmt = "csv"
                THEN fs[full_path].lines ELSE <<>>
        head == IF ~file_exists THEN <<CsvHeader>> ELSE <<>>
        rows == CsvRows(kept, res)
    IN  IF opened # NoException THEN ExportFailed(fs, full_path, "csv", opened)
        ELSE [fs |-> Write(fs, full_path, [fmt |-> "csv", lines |-> kept \o head \o rows]),
              outcome |-> FileOperationResult(full_path, "csv", Len(rows), TRUE, None),
              raised |-> NoException]

\* ForexExtractionResult.to_json_structure
to_json_structure(res) ==
    [shape |-> "object",
     currency_pair |-> res.metadata.currency_pair,
     extraction_date |-> res.metadata.extraction_timestamp,
     data_count |-> Len(res.data_points),
     historical_data |->
        [i \in 1..Len(res.data_points) |->
            [date |-> res.data_points[i].date_string, close |-> res.data_points[i].close_price]],
     metadata |-> res.metadata]

\* d[key] = value on a dict: the key is added when the dict lacks it.
SetItem(d, key, value) == [k \in DOMAIN d \cup {key} |-> IF k = key THEN value ELSE d[k]]

\* Mutant: the merge drops a new row only when an equal row exists.
MergeJsonByRow(existing_data, json_data) ==
    LET existing_rows ==
            {existing_data.historical_data[i] : i \in 1..Len(existing_data.historical_data)}
    IN  [SetItem(existing_data, "extraction_date", json_data.extraction_date) EXCEPT
            !.data_count = @ + Len(json_data.historical_data),
            !.historical_data =
                @ \o SelectSeq(json_data.historical_data, LAMBDA it : it \notin existing_rows)]

\* Mutant: the merge appends every new row, as the CSV export does.
MergeJsonAppendsAll(existing_data, json_data) ==
    [SetItem(existing_data, "extraction_date", json_data.extraction_date) EXCEPT
        !.data_count = @ + Len(json_data.historical_data),
        !.historical_data = @ \o json_data.historical_data]

\* Mutant: the merge leaves data_count as the file had it.
MergeJsonKeepsCount(existing_data, json_data) ==
    LET existing_dates ==
            {existing_data.historical_data[i].date : i \in 1..Len(existing_data.historical_data)}
    IN  [SetItem(existing_data, "extraction_date", json_data.extraction_date) EXCEPT
            !.historical_data =
                @ \o SelectSeq(json_data.historical_data, LAMBDA it : it.date \notin existing_dates)]

\* The merge of lines 151-159: existing_dates is computed once, before the loop.
MergeJson(existing_data, json_data) ==
    LET existing_dates ==
            {existing_data.historical_data[i].date : i \in 1..Len(existing_data.historical_data)}
    IN  [SetItem(existing_data, "extraction_date", json_data.extraction_date) EXCEPT
            !.data_count = @ + Len(json_data.historical_data),
            !.historical_data =
                @ \o SelectSeq(json_data.historical_data, LAMBDA it : it.date \notin existing_dates)]

\* An entry of a loaded historical_data: an object, or a JSON string.
JsonString == [scalar |-> "str"]

IsObject(item) == "scalar" \notin DOMAIN item

\* lines 146-164: what is to be written after reading the existing file, and
\* the exception that leaves the inner try block.  `except (json.JSONDecodeError,
\* IOError): pass` keeps the new data; a missing data_count is a KeyError
\* raised after extraction_date was set on the loaded document; an entry that
\* is not an object has no .get (line 154): AttributeError.
ReadExisting(fs, full_path, json_data) ==
    LET existing == fs[full_path]
        e == IF existing.fmt # "json" THEN Raise("JSONDecodeError", "Expecting value")
             ELSE IF /\ existing.data.shape = "object"
                     /\ "historical_data" \in DOMAIN existing.data
                     /\ "data_count" \notin DOMAIN existing.data
                  THEN Raise("KeyError", "'data_count'")
                  ELSE IF /\ existing.data.shape = "object"
                          /\ "historical_data" \in DOMAIN existing.data
                          /\ \E i \in 1..Len(existing.data.historical_data) :
                                ~IsObject(existing.data.historical_data[i])
                       THEN Raise("AttributeError", "'str' object has no attribute 'get'")
                       ELSE NoException
    IN  IF e # NoException
        THEN [json_data |-> json_data,
              exc |-> IF Catches({"JSONDecodeError", "OSError"}, e) THEN NoException ELSE e]
        ELSE IF existing.data.shape = "object" /\ "historical_data" \in DOMAIN existing.data
             THEN [json_data |-> MergeJson(existing.data, json_data), exc |-> NoException]
             ELSE [json_data |-> [shape |-> "list", items |-> <<existing.data, json_data>>],
                   exc |-> NoException]

\* lines 143-164: json_data as it stands before the file is opened for
\* writing, and the exception that left the inner try block, if any.
JsonLoad(fs, res, req) ==
    LET full_path == FullPath(_get_output_filename(req, ".json"))
    IN  IF req.append_to_file /\ IsFile(fs, full_path)
        THEN ReadExisting(fs, full_path, to_json_structure(res))
        ELSE [json_data |-> to_json_structure(res), exc |-> NoException]

\* Mutant: the write merges with the file as it is when it is written.
JsonDumpReloads(fs, res, req, read) ==
    LET full_path == FullPath(_get_output_filename(req, ".json"))
        again == JsonLoad(fs, res, req)
        opened == open(fs, full_path)
    IN  IF again.exc # NoException THEN ExportFailed(fs, full_path, "json", again.exc)
        ELSE IF opened # NoException THEN ExportFailed(fs, full_path, "json", opened)
        ELSE [fs |-> Write(fs, full_path, [fmt |-> "json", data |-> again.json_data]),
              outcome |-> FileOperationResult(full_path, "json", Len(res.data_points), TRUE, None),
              raised |-> NoException]

\* Mutant: the outcome counts the rows of the document that was written.
RowsWrittenStored(res, read) ==
    IF read.json_data.shape = "object"
    THEN Len(read.json_data.historical_data)
    ELSE Len(res.data_points)

\* line 173: rows_written = len(result.data_points), whatever was merged.
RowsWritten(res, read) == Len(res.data_points)

\* Mutant: the file is opened for writing before the existing one is merged.
JsonDumpOpensFirst(fs, res, req, read) ==
    LET full_path == FullPath(_get_output_filename(req, ".json"))
        opened == open(fs, full_path)
        truncated == Write(fs, full_path, [fmt |-> "text"])
    IN  IF opened # NoException THEN ExportFailed(fs, full_path, "json", opened)
        ELSE IF read.exc # NoException THEN ExportFailed(truncated, full_path, "json", read.exc)
        ELSE [fs |-> Write(fs, full_path, [fmt |-> "json", data |-> read.json_data]),
              outcome |-> FileOperationResult(full_path, "json", Len(res.data_points), TRUE, None),
              raised |-> NoException]

\* lines 166-191: open(full_path, 'w'), json.dump of the json_data loaded
\* before, the outcome; the handler when the load or the open raised.
JsonDump(fs, res, req, read) ==
    LET full_path == FullPath(_get_output_filename(req, ".json"))
        opened == open(fs, full_path)
    IN  IF read.exc # NoException THEN ExportFailed(fs, full_path, "json", read.exc)
        ELSE IF opened # NoException THEN ExportFailed(fs, full_path, "json", opened)
        ELSE [fs |-> Write(fs, full_path, [fmt |-> "json", data |-> read.json_data]),
              outcome |-> FileOperationResult(full_path, "json", RowsWritten(res, read), TRUE, None),
              raised |-> NoException]

_export_to_json(fs, res, req) == JsonDump(fs, res, req, JsonLoad(fs, res, req))

\* Request objects live in a store and are held by reference.
\* Mutant: the JSON request is the caller's object, not a copy of it.
ModelCopyAliased(objs, ref) == [objs |-> objs, ref |-> ref]

\* request.model_copy(deep=True): a new object with the fields of the original
model_copy(objs, ref) == [objs |-> Append(objs, objs[ref]), ref |-> Len(objs) + 1]

\* lines 59-64: json_request and the assignment to its output_file; objs[1] is
\* the request the caller passed.
JsonRequestObjects(req) ==
    LET c == model_copy(<<req>>, 1)
        name == c.objs[1].output_file
    IN  IF Truthy(name)
        THEN IF EndsWith(name, ".csv")
             THEN [c EXCEPT !.objs[c.ref].output_file = Replace(name, ".csv", ".json")]
             ELSE IF ~EndsWith(name, ".json")
                  THEN [c EXCEPT !.objs[c.ref].output_file = Append(name, ".json")]
                  ELSE c
        ELSE c

JsonRequest(req) == JsonRequestObjects(req).objs[JsonRequestObjects(req).ref]

\* Mutant: BOTH gives up after a failed CSV export.
ExportBothStopsOnFailure(fs, res, req) ==
    LET c == _export_to_csv(fs, res, req)
        j == _export_to_json(c.fs, res, JsonRequest(req))
    IN  IF ~c.outcome.success
        THEN [fs |-> c.fs, export_results |-> <<c.outcome>>, raised |-> c.raised,
              request |-> req]
        ELSE [fs |-> j.fs, export_results |-> <<c.outcome, j.outcome>>, raised |-> j.raised,
              request |-> req]

\* lines 55-67: CSV, then JSON with the derived request.
ExportBoth(fs, res, req) ==
    LET c == _export_to_csv(fs, res, req)
        o == JsonRequestObjects(req)
        j == _export_to_json(c.fs, res, o.objs[o.ref])
    IN  IF c.raised # NoException
        THEN [fs |-> c.fs, export_results |-> <<>>, raised |-> c.raised, request |-> req]
        ELSE IF j.raised # NoException
             THEN [fs |-> j.fs, export_results |-> <<>>, raised |-> j.raised,
                   request |-> o.objs[1]]
             ELSE [fs |-> j.fs, export_results |-> <<c.outcome, j.outcome>>,
                   raised |-> NoException, request |-> o.objs[1]]

\* One format: the outcome of its export method, or the exception it raised.
ExportOne(e, req) ==
    [fs |-> e.fs, export_results |-> IF e.raised = NoException THEN <<e.outcome>> ELSE <<>>,
     raised |-> e.raised, request |-> req]

\* export_result: the file system after the call, the list returned (or the
\* exception raised) and the caller's request object as the call leaves it.
export_result(fs, res, req) ==
    CASE req.output_format = "csv" -> ExportOne(_export_to_csv(fs, res, req), req)
      [] req.output_format = "json" -> ExportOne(_export_to_json(fs, res, req), req)
      [] req.output_format = "both" -> ExportBoth(fs, res, req)

(***************************************************************************)
(* Inputs.                                                                 *)
(***************************************************************************)
MaxRows == 2

Currencies == {<<"U", "S", "D">>, <<" ", "u", "s", "d">>, <<"U", "S", "1", "2">>, <<>>}

Row(d, p) == [date_text |-> d, close_price |-> p]

\* Table rows of the fetched page: dates inside and outside the requested
\* ranges in each spelling, unparsable dates, and prices that are valid,
\* zero, negative, unparsable, blank or missing.
RowSet ==
    { Row(<<"Jan", "02", ",", "2024">>, <<"1", ".", "1">>),
      Row(<<"January", "04", ",", "2024">>, <<"1", ",", "2", "3", "4", ".", "5">>),
      Row(<<"2024", "-", "01", "-", "03">>, <<"1", ".", "2">>),
      Row(<<" ", "Jan", "05", ",", "2024", " ">>, <<" ", "1", ".", "5", " ">>),
      Row(<<"Dec", "31", ",", "2023">>, <<"1", ".", "1">>),
      Row(<<"01", "/", "06", "/", "2024">>, <<"1", ".", "1">>),
      Row(<<"13", "/", "01", "/", "2024">>, <<"1", ".", "3">>),
      Row(<<"n/a">>, <<"1", ".", "1">>),
      Row(<<"Feb", "30", ",", "2024">>, <<"1", ".", "1">>),
      Row(<<"Jan", "02", ",", "2024">>, <<"0">>),
      Row(<<"Jan", "03", ",", "2024">>, <<"-", "1", ".", "5">>),
      Row(<<"Jan", "04", ",", "2024">>, <<"-">>),
      Row(<<"Jan", "04", ",", "2024">>, <<" ">>),
      Row(NoText, <<"1", ".", "1">>),
      Row(<<"Jan", "03", ",", "2024">>, NoText),
      Row(<<" ">>, <<>>) }

RECURSIVE SeqsUpTo(_, _)
SeqsUpTo(S, n) ==
    IF n = 0 THEN {<<>>}
    ELSE SeqsUpTo(S, n - 1) \cup {Append(q, x) : q \in SeqsUpTo(S, n - 1), x \in S}

Pages == SeqsUpTo(RowSet, MaxRows)

\* Arguments of get_forex_data.
CallArgs ==
    [currency_pair  : {<<"U", "S", "D">>, <<"U", "S", "1", "2">>},
     dates          : {<<20240105, 20240101>>, <<20240103, 20240103>>, <<20230101, 20240101>>},
     output_file    : {NoText, <<"out", ".csv">>, <<"a", "/", "b">>},
     append_to_file : BOOLEAN,
     output_format  : {"csv", "json", "both"}]

NoArgs ==
    [currency_pair |-> <<>>, dates |-> <<0, 0>>, output_file |-> NoText,
     append_to_file |-> TRUE, output_format |-> "csv"]

NoBuilt == [ok |-> FALSE, req |-> None, errors |-> {}]

(***************************************************************************)
(* scraper.py: get_forex_data and ForexDataExtractor.extract_forex_data.   *)
(***************************************************************************)
Init ==
    /\ args = NoArgs
    /\ built = NoBuilt
    /\ pc = "idle"
    /\ request = None
    /\ session = "none"
    /\ html = <<>>
    /\ error = None
    /\ raw_data = <<>>
    /\ result = NoResult
    /\ exports = <<>>
    /\ files = <<>>
    /\ nexports = 0

\* get_forex_data, lines 220-250: build the request and hand it to the
\* extractor; the ValidationError handler builds the request a second time
\* from the same arguments for the metadata of the failed result.
GetForexData ==
    /\ pc = "idle"
    /\ \E a \in CallArgs :
         LET b == create_extraction_request(a.currency_pair, a.dates[1], a.dates[2],
                      a.output_file, a.append_to_file, a.output_format)
         IN  /\ args' = a
             /\ built' = b
             /\ IF b.ok
                THEN /\ request' = b.req
                     /\ pc' = "launch"
                     /\ UNCHANGED <<error, result>>
                ELSE LET again == create_extraction_request(a.currency_pair, a.dates[1],
                                      a.dates[2], a.output_file, a.append_to_file,
                                      a.output_format)
                     IN  IF again.ok
                         THEN /\ result' = ForexExtractionResult(<<>>,
                                     ExtractionMetadata(again.req, "t1"), FALSE,
                                     "Request validation failed")
                              /\ pc' = "returned"
                              /\ UNCHANGED <<request, error>>
                         ELSE /\ pc' = "raised"
                              /\ error' = "ValidationError"
                              /\ UNCHANGED <<request, result>>
    /\ UNCHANGED <<session, html, raw_data, exports, files, nexports>>

\* Mutant: a failing step leaves the browser as it is (no scoped release).
FetchFailsKeepsSession(e) ==
    /\ error' = e
    /\ pc' = "except"
    /\ UNCHANGED <<args, built, request, session, html, raw_data, result, exports, files, nexports>>

\* A browser step that raises leaves the `async with async_playwright()`
\* block: page.close() / browser.close() are skipped, and the exit of the
\* block stops the driver, which ends the browser it launched.
FetchFails(e) ==
    /\ error' = e
    /\ pc' = "except"
    /\ session' = IF session = "open" THEN "stopped" ELSE session
    /\ UNCHANGED <<args, built, request, html, raw_data, result, exports, files, nexports>>

FetchStep(next) ==
    /\ pc' = next
    /\ UNCHANGED <<args, built, request, html, error, raw_data, result, exports, files, nexports>>

\* lines 98-108: chromium.launch, new_page, page.route
Launch ==
    /\ pc = "launch"
    /\ \/ session' = "open" /\ FetchStep("goto")
       \/ FetchFails("BrowserType.launch: Executable doesn't exist")

\* line 111: page.goto(url, timeout=0)
Goto ==
    /\ pc = "goto"
    /\ \/ UNCHANGED session /\ FetchStep("wait")
       \/ FetchFails("Page.goto: net::ERR_NAME_NOT_RESOLVED")

\* lines 113-119: wait_for_selector, query_selector, sleep
WaitForSelector ==
    /\ pc = "wait"
    /\ \/ UNCHANGED session /\ FetchStep("content")
       \/ FetchFails("Page.wait_for_selector: Timeout 30000ms exceeded")

\* lines 121-152: page.content(), the row scan, page.close(), browser.close().
\* `html` holds the table rows of the content; content without rows is <<>>,
\* empty content is the "Failed to retrieve HTML content" failure.
Scrape ==
    /\ pc = "content"
    /\ \/ \E page \in Pages :
            /\ html' = page
            /\ raw_data' = ScanRows(<<>>, page, request)
            /\ session' = "closed"
            /\ pc' = "assemble"
            /\ UNCHANGED <<args, built, request, error, result, exports, files, nexports>>
       \/ FetchFails("Failed to retrieve HTML content")
       \/ FetchFails("Page.content: Target closed")

\* lines 45-60: metadata, data points, result
Assemble ==
    /\ pc = "assemble"
    /\ result' = ForexExtractionResult(_convert_to_data_points(raw_data),
                     ExtractionMetadata(request, "t1"), TRUE, None)
    /\ pc' = "save"
    /\ UNCHANGED <<args, built, request, session, html, error, raw_data, exports, files, nexports>>

\* lines 62-65: save when asked to or when there is data, then return; an
\* exception out of the export is inside the try block of extract_forex_data.
SaveAndReturn ==
    /\ pc = "save"
    /\ IF request.output_file # NoText \/ Len(result.data_points) > 0
       THEN LET e == export_result(files, result, request)
            IN  /\ files' = e.fs
                /\ exports' = e.export_results
                /\ nexports' = nexports + 1
                /\ request' = e.request
                /\ IF e.raised = NoException
                   THEN pc' = "returned" /\ UNCHANGED error
                   ELSE pc' = "except" /\ error' = e.raised.text
       ELSE /\ pc' = "returned"
            /\ UNCHANGED <<files, exports, nexports, request, error>>
    /\ UNCHANGED <<args, built, session, html, raw_data, result>>

\* Mutant: the handler reports a fixed text instead of str(e).
ExceptHandlerGenericText ==
    /\ pc = "except"
    /\ result' = ForexExtractionResult(<<>>, ExtractionMetadata(request, "t1"), FALSE,
                     "Extraction failed")
    /\ pc' = "returned"
    /\ UNCHANGED <<args, built, request, session, html, error, raw_data, exports, files, nexports>>

\* Mutant: the handler builds the failed result without its error_message.
ExceptHandlerNoMessage ==
    /\ pc = "except"
    /\ result' = ForexExtractionResult(<<>>, ExtractionMetadata(request, "t1"), FALSE, None)
    /\ pc' = "returned"
    /\ UNCHANGED <<args, built, request, session, html, error, raw_data, exports, files, nexports>>

\* Mutant: the handler goes back to the navigation instead of returning.
ExceptHandlerRetries ==
    /\ pc = "except"
    /\ pc' = "goto"
    /\ session' = "open"
    /\ UNCHANGED <<args, built, request, html, error, raw_data, result, exports, files, nexports>>

\* lines 67-82: any Exception becomes a failed result
ExceptHandler ==
    /\ pc = "except"
    /\ result' = ForexExtractionResult(<<>>, ExtractionMetadata(request, "t1"), FALSE, error)
    /\ pc' = "returned"
    /\ UNCHANGED <<args, built, request, session, html, error, raw_data, exports, files, nexports>>

Next ==
    \/ GetForexData
    \/ Launch
    \/ Goto
    \/ WaitForSelector
    \/ Scrape
    \/ Assemble
    \/ SaveAndReturn
    \/ ExceptHandler

Spec == Init /\ [][Next]_vars

\* The positions of one call: before it, at each await of the fetch, between
\* the synchronous stages, in the handler, and after its return or raise.
Positions ==
    {"idle", "launch", "goto", "wait", "content", "assemble", "save", "except",
     "returned", "raised"}

\* The event loop resumes the coroutine: a call that has not returned or
\* raised moves to another position.  Every step of Next is such a move, and
\* Next can be taken at every position but the last two.
Resume ==
    /\ pc \notin {"returned", "raised"}
    /\ pc' \in Positions \ {pc}

\* The pipeline when the step that can be taken eventually is: each browser
\* step completes or fails (page.goto has timeout=0, so this is an assumption
\* about the site and the browser), and the code between them runs on.  The
\* call is one sequential coroutine: at most one action is enabled at a time.
SpecFair == Spec /\ WF_pc(Resume)

(***************************************************************************)
(* Request construction on its own: ExtractionRequest(...) called with     *)
(* caller-chosen fields and bounds, and utils.validate_date_range.         *)
(***************************************************************************)
RequestDates == {20040101, 20050101, 20240601, 20240615, 20240701, 20250101}

RequestInputs ==
    [currency_pair  : Currencies,
     start_date     : RequestDates,
     end_date       : RequestDates,
     output_file    : {NoText, <<"out", ".csv">>, <<"a", "/", "b">>, <<" ">>},
     append_to_file : {TRUE},
     output_format  : {"csv"},
     min_end_date   : {<<>>, <<20240601>>},
     max_start_date : {<<>>, <<20240601>>, <<20240701>>}]

ConstructRequest ==
    /\ pc = "idle"
    /\ \E a \in RequestInputs :
         /\ args' = a
         /\ built' = ExtractionRequest(a)
    /\ pc' = "constructed"
    /\ UNCHANGED <<request, session, html, error, raw_data, result, exports, files, nexports>>

ValidateDateRange ==
    /\ pc = "idle"
    /\ \E a \in RequestInputs :
         LET msg == utils_validate_date_range(a.start_date, a.end_date,
                        a.max_start_date, a.min_end_date)
         IN  /\ args' = a
             /\ built' = [ok |-> msg = None,
                          req |-> [start_date |-> a.start_date, end_date |-> a.end_date,
                                   max_start_date |-> IF a.max_start_date = <<>> THEN Today
                                                      ELSE a.max_start_date[1],
                                   min_end_date |-> IF a.min_end_date = <<>> THEN MinEndDate
                                                    ELSE a.min_end_date[1]],
                          errors |-> IF msg = None THEN {}
                                     ELSE {[loc |-> "__root__", msg |-> msg]}]
    /\ pc' = "validated"
    /\ UNCHANGED <<request, session, html, error, raw_data, result, exports, files, nexports>>

NextRequest ==
    \/ ConstructRequest
    \/ ValidateDateRange

SpecRequest == Init /\ [][NextRequest]_vars

(***************************************************************************)
(* CSV export on its own: successive _export_to_csv calls on one path,     *)
(* each with a result the pipeline can produce and either append mode.     *)
(***************************************************************************)
MaxExports == 3
MaxExportRows == 2

ExportRequest(append, format) ==
    [currency_pair |-> <<"U", "S", "D">>, start_date |-> 20240105, end_date |-> 20240101,
     output_file |-> <<"out", ".csv">>, append_to_file |-> append, output_format |-> format,
     min_end_date |-> MinEndDate, max_start_date |-> Today]

ExportRows ==
    { Row(<<"Jan", "02", ",", "2024">>, <<"1", ".", "1">>),
      Row(<<"Jan", "02", ",", "2024">>, <<"1", ".", "2">>),
      Row(<<"2024", "-", "01", "-", "03">>, <<"1", ".", "2">>) }

\* What extract_forex_data assembles from a page, at a given time.
ResultOf(page, req, now) ==
    ForexExtractionResult(_convert_to_data_points(ScanRows(<<>>, page, req)),
        ExtractionMetadata(req, now), TRUE, None)

ExportResults ==
    {ResultOf(page, ExportRequest(TRUE, "csv"), "t1") : page \in SeqsUpTo(ExportRows, MaxExportRows)}

ExportCsv ==
    /\ pc = "idle"
    /\ nexports < MaxExports
    /\ \E res \in ExportResults, append \in BOOLEAN :
         LET req == ExportRequest(append, "csv")
             c == _export_to_csv(files, res, req)
         IN  /\ request' = req
             /\ result' = res
             /\ files' = c.fs
             /\ exports' = <<c.outcome>>
    /\ nexports' = nexports + 1
    /\ UNCHANGED <<args, built, pc, session, html, error, raw_data>>

NextCsv == ExportCsv

SpecCsv == Init /\ [][NextCsv]_vars

(***************************************************************************)
(* export_result on its own: successive calls on one target name, starting *)
(* from an output directory that may already hold something at the paths   *)
(* of out.csv and out.json.                                                *)
(***************************************************************************)
MaxExportCalls == 2

OutputFiles ==
    {NoText, <<"out">>, <<"out", ".csv">>, <<"out", ".json">>, <<"a", ".csv", "b", ".csv">>,
     <<"..">>}

ExportRequestTo(output_file, append, format) ==
    [ExportRequest(append, format) EXCEPT !.output_file = output_file]

ExportPages ==
    { <<>>,
      <<Row(<<"Jan", "02", ",", "2024">>, <<"1", ".", "1">>)>>,
      <<Row(<<"2024", "-", "01", "-", "03">>, <<"1", ".", "2">>),
        Row(<<"Jan", "02", ",", "2024">>, <<"1", ".", "2">>)>> }

\* datetime.now() of the n-th extraction
Timestamp(n) ==
    CASE n = 0 -> "t0" [] n = 1 -> "t1" [] n = 2 -> "t2" [] n = 3 -> "t3" [] OTHER -> "t4"

CsvPath == FullPath(<<"out", ".csv">>)
JsonPath == FullPath(<<"out", ".json">>)

\* A document an earlier append left: one entry, three rows counted.
ExistingDocument ==
    [shape |-> "object",
     currency_pair |-> <<"U", "S", "D">>,
     extraction_date |-> Timestamp(0),
     data_count |-> 3,
     historical_data |->
        <<[date |-> <<"Jan", "02", ",", "2024">>, close |-> Decimal(<<"1", ".", "0">>)]>>,
     metadata |-> ExtractionMetadata(ExportRequest(TRUE, "json"), Timestamp(0))]

Directory == [fmt |-> "dir"]

JsonFile(data) == [fmt |-> "json", data |-> data]

\* What the output directory holds before the first call.
InitialFiles ==
    { <<>>,
      CsvPath :> Directory,
      JsonPath :> Directory,
      JsonPath :> [fmt |-> "text"],
      JsonPath :> JsonFile(ExistingDocument),
      JsonPath :> JsonFile([shape |-> "object",
                            historical_data |-> ExistingDocument.historical_data,
                            extraction_date |-> Timestamp(0)]),
      JsonPath :> JsonFile([shape |-> "object", currency_pair |-> <<"U", "S", "D">>]),
      JsonPath :> JsonFile([shape |-> "list", items |-> <<>>]) }

InitExport ==
    /\ args = NoArgs
    /\ built = NoBuilt
    /\ pc = "idle"
    /\ request = None
    /\ session = "none"
    /\ html = <<>>
    /\ error = None
    /\ raw_data = <<>>
    /\ result = NoResult
    /\ exports = <<>>
    /\ files \in InitialFiles
    /\ nexports = 0

\* One export_result call; `args` keeps the request as it was passed,
\* `request` the same object after the call.
ExportResult ==
    /\ pc = "idle"
    /\ nexports < MaxExportCalls
    /\ \E page \in ExportPages, append \in BOOLEAN, format \in {"csv", "json", "both"},
          output_file \in IF nexports = 0 THEN OutputFiles ELSE {args.output_file} :
         LET req == ExportRequestTo(output_file, append, format)
             res == ResultOf(page, req, Timestamp(nexports + 1))
             e == export_result(files, res, req)
         IN  /\ args' = req
             /\ request' = e.request
             /\ result' = res
             /\ files' = e.fs
             /\ exports' = e.export_results
             /\ IF e.raised = NoException
                THEN UNCHANGED <<pc, error>>
                ELSE pc' = "raised" /\ error' = e.raised.text
    /\ nexports' = nexports + 1
    /\ UNCHANGED <<built, session, html, raw_data>>

NextExport == ExportResult

SpecExport == InitExport /\ [][NextExport]_vars

(***************************************************************************)
(* export_result when out.json already holds a document: one the merge can *)
(* update, one without data_count, or one with an entry that is a string.  *)
(***************************************************************************)
StoredDocuments ==
    { ExistingDocument,
      [shape |-> "object",
       historical_data |-> ExistingDocument.historical_data,
       extraction_date |-> Timestamp(0)],
      [ExistingDocument EXCEPT !.historical_data = Append(@, JsonString)] }

InitMerge ==
    /\ args = NoArgs
    /\ built = NoBuilt
    /\ pc = "idle"
    /\ request = None
    /\ session = "none"
    /\ html = <<>>
    /\ error = None
    /\ raw_data = <<>>
    /\ result = NoResult
    /\ exports = <<>>
    /\ files \in {JsonPath :> JsonFile(doc) : doc \in StoredDocuments}
    /\ nexports = 0

SpecMerge == InitMerge /\ [][NextExport]_vars

(***************************************************************************)
(* parse_date_string on its own: one call on a date text, which is a date  *)
(* of the table written in one of the five formats (existing or not, with  *)
(* or without blanks around it) or no date at all.                         *)
(***************************************************************************)
\* The word for a number and for a month, as strftime writes them.
TwoDigits(n) == CHOOSE t \in DOMAIN NumVal : NumVal[t] = n
AbbrOf(m) == CHOOSE w \in DOMAIN MonthAbbr : MonthAbbr[w] = m
FullOf(m) == CHOOSE w \in DOMAIN MonthFull : MonthFull[w] = m

\* The day y-m-d written in the k-th format.
Spelling(y, m, d, k) ==
    CASE k = 1 -> <<AbbrOf(m), TwoDigits(d), ",", TwoDigits(y)>>
      [] k = 2 -> <<FullOf(m), TwoDigits(d), ",", TwoDigits(y)>>
      [] k = 3 -> <<TwoDigits(y), "-", TwoDigits(m), "-", TwoDigits(d)>>
      [] k = 4 -> <<TwoDigits(m), "/", TwoDigits(d), "/", TwoDigits(y)>>
      [] k = 5 -> <<TwoDigits(d), "/", TwoDigits(m), "/", TwoDigits(y)>>

SpelledYears == {n \in {NumVal[t] : t \in DOMAIN NumVal} : n > 31}
SpelledMonths == {n \in {NumVal[t] : t \in DOMAIN NumVal} : n <= 12}
SpelledDays == {n \in {NumVal[t] : t \in DOMAIN NumVal} : n <= 31}

DateTexts ==
    {Spelling(y, m, d, k) : y \in SpelledYears, m \in SpelledMonths, d \in SpelledDays, k \in 1..5}
    \cup {<<" ">> \o Spelling(2024, 1, d, k) \o <<" ", " ">> : d \in {6, 13}, k \in 1..5}
    \cup {<<"not a date">>, <<"n/a">>, <<" ">>, <<>>, <<"Jan", "02", "2024">>,
          <<"2024", "/", "01", "/", "02">>, <<"01", "-", "02", "-", "2024">>}

ParseDateString ==
    /\ pc = "idle"
    /\ \E date_str \in DateTexts :
         /\ args' = [date_str |-> date_str]
         /\ built' = [ok |-> parse_date_string(date_str) # NoDate,
                      value |-> parse_date_string(date_str)]
    /\ pc' = "parsed"
    /\ UNCHANGED <<request, session, html, error, raw_data, result, exports, files, nexports>>

NextParse == ParseDateString

SpecParse == Init /\ [][NextParse]_vars

(***************************************************************************)
(* Concurrent extractions: several get_forex_data coroutines on one event  *)
(* loop and one output directory, each with an output file of its own.     *)
(* Here every variable but `files` and `nexports` holds one value per      *)
(* call.  A coroutine gives way to the others at its awaits on the         *)
(* browser only: the row scan, and everything from the assembly of the     *)
(* result to the return (the export methods await nothing that suspends),  *)
(* run without interruption.                                               *)
(***************************************************************************)
NumCalls == 2

Calls == 1..NumCalls

\* Mutant: every call works on the objects of the first call.
OwnShared(c) == 1

\* The objects of a call: get_forex_data builds its own request and
\* extractor, _scrape_yahoo_finance its own session and lists,
\* extract_forex_data its own metadata and result.
Own(c) == c

ConcurrentPages == ExportPages \ {<<>>}

\* The arguments of the c-th call (append_to_file at its default) and what
\* the site answers to it: a page, or the failure of the navigation.
CallArgsOf(c) ==
    [output_file    : {<<"run", TwoDigits(c)>>},
     append_to_file : {TRUE},
     output_format  : {"csv", "json", "both"},
     page           : ConcurrentPages,
     failure        : {None}]
    \cup
    [output_file    : {<<"run", TwoDigits(c)>>},
     append_to_file : {TRUE},
     output_format  : {"csv", "json", "both"},
     page           : {<<>>},
     failure        : {"Page.goto: net::ERR_NAME_NOT_RESOLVED"}]

RequestOf(a) ==
    create_extraction_request(<<"U", "S", "D">>, 20240105, 20240101, a.output_file,
        a.append_to_file, a.output_format).req

InitConcurrent ==
    /\ args = [c \in Calls |-> NoArgs]
    /\ built = NoBuilt
    /\ pc = [c \in Calls |-> "idle"]
    /\ request = [c \in Calls |-> None]
    /\ session = [c \in Calls |-> "none"]
    /\ html = [c \in Calls |-> <<>>]
    /\ error = [c \in Calls |-> None]
    /\ raw_data = [c \in Calls |-> <<>>]
    /\ result = [c \in Calls |-> NoResult]
    /\ exports = [c \in Calls |-> <<>>]
    /\ files = <<>>
    /\ nexports = 0

\* get_forex_data up to the first await of _scrape_yahoo_finance
CallGetForexData(c) ==
    /\ pc[c] = "idle"
    /\ \E a \in CallArgsOf(c) :
         /\ args' = [args EXCEPT ![c] = a]
         /\ request' = [request EXCEPT ![Own(c)] = RequestOf(a)]
    /\ pc' = [pc EXCEPT ![c] = "launch"]
    /\ UNCHANGED <<built, session, html, error, raw_data, result, exports, files, nexports>>

\* chromium.launch, new_page, page.route
CallLaunch(c) ==
    /\ pc[c] = "launch"
    /\ session' = [session EXCEPT ![Own(c)] = "open"]
    /\ pc' = [pc EXCEPT ![c] = "content"]
    /\ UNCHANGED <<args, built, request, html, error, raw_data, result, exports, files, nexports>>

\* page.goto ... page.content()
CallContent(c) ==
    /\ pc[c] = "content"
    /\ IF args[c].failure = None
       THEN /\ html' = [html EXCEPT ![Own(c)] = args[c].page]
            /\ pc' = [pc EXCEPT ![c] = "scan"]
            /\ UNCHANGED <<session, error>>
       ELSE /\ error' = [error EXCEPT ![Own(c)] = args[c].failure]
            /\ session' = [session EXCEPT ![Own(c)] = "stopped"]
            /\ pc' = [pc EXCEPT ![c] = "except"]
            /\ UNCHANGED html
    /\ UNCHANGED <<args, built, request, raw_data, result, exports, files, nexports>>

\* the row scan, up to page.close() / browser.close()
CallScan(c) ==
    /\ pc[c] = "scan"
    /\ raw_data' = [raw_data EXCEPT ![Own(c)] = ScanRows(<<>>, html[Own(c)], request[Own(c)])]
    /\ session' = [session EXCEPT ![Own(c)] = "closed"]
    /\ pc' = [pc EXCEPT ![c] = "assemble"]
    /\ UNCHANGED <<args, built, request, html, error, result, exports, files, nexports>>

\* metadata, data points, result, _save_result, return
CallFinish(c) ==
    /\ pc[c] = "assemble"
    /\ LET req == request[Own(c)]
           res == ForexExtractionResult(_convert_to_data_points(raw_data[Own(c)]),
                      ExtractionMetadata(req, Timestamp(c)), TRUE, None)
           e == export_result(files, res, req)
       IN  /\ result' = [result EXCEPT ![Own(c)] = res]
           /\ IF req.output_file # NoText \/ Len(res.data_points) > 0
              THEN /\ files' = e.fs
                   /\ exports' = [exports EXCEPT ![Own(c)] = e.export_results]
                   /\ nexports' = nexports + 1
              ELSE UNCHANGED <<files, exports, nexports>>
    /\ pc' = [pc EXCEPT ![c] = "returned"]
    /\ UNCHANGED <<args, built, request, session, html, error, raw_data>>

\* the handler of extract_forex_data
CallExcept(c) ==
    /\ pc[c] = "except"
    /\ result' = [result EXCEPT ![Own(c)] =
                     ForexExtractionResult(<<>>, ExtractionMetadata(request[Own(c)], Timestamp(c)),
                         FALSE, error[Own(c)])]
    /\ pc' = [pc EXCEPT ![c] = "returned"]
    /\ UNCHANGED <<args, built, request, session, html, error, raw_data, exports, files, nexports>>

NextConcurrent ==
    \E c \in Calls :
        \/ CallGetForexData(c)
        \/ CallLaunch(c)
        \/ CallContent(c)
        \/ CallScan(c)
        \/ CallFinish(c)
        \/ CallExcept(c)

SpecConcurrent == InitConcurrent /\ [][NextConcurrent]_vars

(***************************************************************************)
(* Exports to one path from several exporters that do not share an event   *)
(* loop (threads or processes, e.g. two runs of the command line tool):    *)
(* each is an append-mode _export_to_json of its own result to out.json.   *)
(* Nothing orders the load of the existing file (lines 145-164) of one     *)
(* with the write (lines 166-169) of another.  Per exporter, `html` holds  *)
(* the file it loaded (none: <<>>), `built` its json_data, `exports` the   *)
(* outcome it returned.                                                    *)
(***************************************************************************)
InitRace ==
    /\ args = NoArgs
    /\ built = [c \in Calls |-> NoBuilt]
    /\ pc = [c \in Calls |-> "idle"]
    /\ request = [c \in Calls |-> None]
    /\ session = "none"
    /\ html = [c \in Calls |-> <<>>]
    /\ error = None
    /\ raw_data = <<>>
    /\ result = [c \in Calls |-> NoResult]
    /\ exports = [c \in Calls |-> <<>>]
    /\ files \in {<<>>, JsonPath :> JsonFile(ExistingDocument)}
    /\ nexports = 0

\* lines 139-164 of one exporter: file name, json_data, load and merge
LoadJson(c) ==
    /\ pc[c] = "idle"
    /\ \E page \in ExportPages :
         LET req == ExportRequestTo(<<"out">>, TRUE, "json")
             res == ResultOf(page, req, Timestamp(c))
         IN  /\ request' = [request EXCEPT ![c] = req]
             /\ result' = [result EXCEPT ![c] = res]
             /\ html' = [html EXCEPT ![c] = IF IsFile(files, JsonPath)
                                            THEN <<files[JsonPath]>> ELSE <<>>]
             /\ built' = [built EXCEPT ![c] = JsonLoad(files, res, req)]
    /\ pc' = [pc EXCEPT ![c] = "loaded"]
    /\ UNCHANGED <<args, session, error, raw_data, exports, files, nexports>>

\* lines 166-191 of one exporter: write, outcome
DumpJson(c) ==
    /\ pc[c] = "loaded"
    /\ LET j == JsonDump(files, result[c], request[c], built[c])
       IN  /\ files' = j.fs
           /\ exports' = [exports EXCEPT ![c] = <<j.outcome>>]
    /\ nexports' = nexports + 1
    /\ pc' = [pc EXCEPT ![c] = "done"]
    /\ UNCHANGED <<args, built, request, session, html, error, raw_data, result>>

NextRace ==
    \E c \in Calls :
        \/ LoadJson(c)
        \/ DumpJson(c)

SpecRace == InitRace /\ [][NextRace]_vars

(***************************************************************************)
(* JSON export on its own: successive _export_to_json calls on out.json in *)
(* an output directory that starts empty, each with a new result or with   *)
(* the result of the call before, in either mode.  `args` is the list of   *)
(* the requests passed so far, `built` what the call before it left.       *)
(***************************************************************************)
JsonPages ==
    { <<>>,
      <<Row(<<"Jan", "02", ",", "2024">>, <<"1", ".", "1">>)>>,
      <<Row(<<"Jan", "02", ",", "2024">>, <<"1", ".", "1">>),
        Row(<<"Jan", "02", ",", "2024">>, <<"1", ".", "2">>)>>,
      <<Row(<<"2024", "-", "01", "-", "03">>, <<"1", ".", "2">>),
        Row(<<"Jan", "02", ",", "2024">>, <<"1", ".", "2">>)>> }

InitJson ==
    /\ args = <<>>
    /\ built = [fs |-> <<>>, result |-> NoResult]
    /\ pc = "idle"
    /\ request = None
    /\ session = "none"
    /\ html = <<>>
    /\ error = None
    /\ raw_data = <<>>
    /\ result = NoResult
    /\ exports = <<>>
    /\ files = <<>>
    /\ nexports = 0

ExportJson ==
    /\ pc = "idle"
    /\ nexports < MaxExports
    /\ \E append \in BOOLEAN,
          res \in {ResultOf(page, ExportRequest(TRUE, "json"), Timestamp(nexports + 1)) :
                      page \in JsonPages}
                  \cup (IF nexports > 0 THEN {result} ELSE {}) :
         LET req == ExportRequestTo(<<"out">>, append, "json")
             j == _export_to_json(files, res, req)
         IN  /\ args' = Append(args, req)
             /\ built' = [fs |-> files, result |-> result]
             /\ request' = req
             /\ result' = res
             /\ files' = j.fs
             /\ exports' = <<j.outcome>>
    /\ nexports' = nexports + 1
    /\ UNCHANGED <<pc, session, html, error, raw_data>>

NextJson == ExportJson

SpecJson == InitJson /\ [][NextJson]_vars

(***************************************************************************)
(* The pipeline with an output directory in which exports can fail: a      *)
(* directory, or a document the merge cannot update, sits where out.csv,   *)
(* out.json or out.csv.json are to be written.                             *)
(***************************************************************************)
SaveTargets == {CsvPath, JsonPath, FullPath(<<"out", ".csv", ".json">>)}

BlockedFiles ==
    { [path \in SaveTargets |-> Directory],
      CsvPath :> Directory,
      JsonPath :> JsonFile([shape |-> "object",
                            historical_data |-> ExistingDocument.historical_data,
                            extraction_date |-> Timestamp(0)]) }

InitSave ==
    /\ args = NoArgs
    /\ built = NoBuilt
    /\ pc = "idle"
    /\ request = None
    /\ session = "none"
    /\ html = <<>>
    /\ error = None
    /\ raw_data = <<>>
    /\ result = NoResult
    /\ exports = <<>>
    /\ files \in BlockedFiles
    /\ nexports = 0

SpecSave == InitSave /\ [][Next]_vars

(***************************************************************************)
(* Claims C1 - C10.                                                        *)
(***************************************************************************)
Finished == pc \in {"returned", "raised"}
Assembled == pc \in {"save", "returned"} /\ built.ok /\ error = None

\* C1 (as claimed): get_forex_data never raises; when request construction
\* fails validation it returns a result with success = false and an
\* error_message describing the failure.
C1_ValidationFailureIsReturned ==
    (Finished /\ ~built.ok) =>
        /\ pc = "returned"
        /\ ~result.success
        /\ result.error_message # None

\* C2: for a valid request, a failure of a fetch step (launch, navigation,
\* landmark wait, page content) is caught: the call returns, never raises, and
\* the result has success = false, the error text as error_message and no
\* data points.
C2_FetchFailureResult ==
    (built.ok /\ error # None) =>
        /\ pc \in {"except", "returned"}
        /\ pc = "except" => ENABLED ExceptHandler
        /\ pc = "returned" =>
              /\ ~result.success
              /\ result.error_message = error
              /\ result.data_points = <<>>

C2_Witness ==
    /\ pc = "returned"
    /\ built.ok
    /\ error = "Page.wait_for_selector: Timeout 30000ms exceeded"
    /\ session = "stopped"
    /\ ~result.success

\* C3: a returned result carries an error_message exactly when its success
\* flag is false.
C3_MessageIffFailure ==
    pc = "returned" => (result.error_message # None <=> ~result.success)

C3_Witness ==
    /\ pc = "returned"
    /\ ~result.success
    /\ result.error_message = "Failed to retrieve HTML content"

\* C4: the data points of the result are in non-decreasing order of parsed
\* date, whatever the order of the rows on the page.
C4_SortedByDate ==
    Assembled =>
        \A i, j \in 1..Len(result.data_points) :
            i < j => result.data_points[i].date <= result.data_points[j].date

\* The page lists a later date before an earlier one and both rows are kept.
C4_Witness ==
    /\ pc = "returned"
    /\ Len(html) = 2
    /\ Len(result.data_points) = 2
    /\ parse_date_string(html[1].date_text) > parse_date_string(html[2].date_text)
    /\ result.data_points[1].date < result.data_points[2].date

\* Dates of the rows held by the files of the output directory.
FileDates(content) ==
    IF content.fmt = "csv"
    THEN {content.lines[i].date : i \in {k \in 1..Len(content.lines) : content.lines[k].kind = "row"}}
    ELSE {content.data.historical_data[i].date : i \in 1..Len(content.data.historical_data)}

\* C5: every data point of the result, and every row of a file the export
\* wrote, has a date d with end_date <= d <= start_date.
C5_DatesWithinRequest ==
    Assembled =>
        /\ \A i \in 1..Len(result.data_points) :
              /\ request.end_date <= result.data_points[i].date
              /\ result.data_points[i].date <= request.start_date
        /\ \A path \in DOMAIN files : \A d \in FileDates(files[path]) :
              /\ request.end_date <= parse_date_string(d)
              /\ parse_date_string(d) <= request.start_date

\* The page holds a parsable row outside the range next to one inside it, and
\* the result has been exported.
C5_Witness ==
    /\ pc = "returned"
    /\ \E i \in 1..Len(html) :
          /\ html[i].date_text # NoText
          /\ parse_date_string(html[i].date_text) > request.start_date
    /\ Len(result.data_points) = 1
    /\ DOMAIN files # {}

\* A row the claim counts: non-blank date and price text, a parsable date
\* in the requested range, a price that is a strictly positive decimal.
NonBlank(text) == text # NoText /\ Strip(text, " ") # <<>>

Countable(row, req) ==
    /\ NonBlank(row.date_text)
    /\ NonBlank(row.close_price)
    /\ parse_date_string(row.date_text) # NoDate
    /\ req.end_date <= parse_date_string(row.date_text)
    /\ parse_date_string(row.date_text) <= req.start_date
    /\ LET d == Decimal(Strip(Without(row.close_price, ","), " "))
       IN  d.valid /\ d.sign = 0 /\ d.coeff > 0

\* C6: after a successful fetch the result has success = true and as many
\* data points as the page has countable rows; all other rows are dropped.
C6_CountOfKeptRows ==
    Assembled =>
        /\ result.success
        /\ Len(result.data_points) =
              Cardinality({i \in 1..Len(html) : Countable(html[i], request)})

\* A page with one countable row and one row that is dropped.
C6_Witness ==
    /\ pc = "returned"
    /\ result.success
    /\ Len(html) = 2
    /\ Len(result.data_points) = 1
    /\ html[2].date_text = <<"Feb", "30", ",", "2024">>

\* C7: every data point has a strictly positive close_price, and a row whose
\* price is rejected does not keep the other rows of the page out of the
\* result.
C7_PositivePrices ==
    Assembled =>
        /\ \A i \in 1..Len(result.data_points) :
              /\ result.data_points[i].close_price.sign = 0
              /\ result.data_points[i].close_price.coeff > 0
        /\ \A i \in 1..Len(html) :
              Countable(html[i], request) =>
                  \E k \in 1..Len(result.data_points) :
                      result.data_points[k].date_string = Strip(html[i].date_text, " ")

\* A zero price ahead of a valid row: the valid row is in the result.
C7_Witness ==
    /\ pc = "returned"
    /\ Len(html) = 2
    /\ html[1].close_price = <<"0">>
    /\ Countable(html[2], request)
    /\ Len(result.data_points) = 1

\* C8 (as claimed): whatever is accepted satisfies start_date <= max_start_date,
\* end_date >= min_end_date and start_date >= end_date, also for bounds
\* supplied by the caller; whatever violates one of them is rejected.
C8_AcceptedWithinBounds ==
    pc \in {"constructed", "validated"} =>
        LET maxs == IF args.max_start_date = <<>> THEN Today ELSE args.max_start_date[1]
            mine == IF args.min_end_date = <<>> THEN MinEndDate ELSE args.min_end_date[1]
        IN  /\ built.ok =>
                /\ built.req.start_date <= built.req.max_start_date
                /\ built.req.end_date >= built.req.min_end_date
                /\ built.req.start_date >= built.req.end_date
            /\ (args.start_date > maxs \/ args.end_date < mine \/ args.start_date < args.end_date)
                  => ~built.ok

\* The constraints an input violates, named by the field that reports them.
Breaks(a, c) ==
    CASE c = "currency_pair" -> ~IsAlpha(Strip(Upper(a.currency_pair), " "))
      [] c = "start_date" -> a.start_date > Today
      [] c = "end_date" -> a.end_date < MinEndDate
      [] c = "output_file" ->
            a.output_file # NoText /\ \E x \in InvalidChars : Contains(a.output_file, x)
      [] c = "__root__" -> a.start_date < a.end_date

Violated(a) ==
    {c \in {"currency_pair", "start_date", "end_date", "output_file", "__root__"} : Breaks(a, c)}

Reported == {e.loc : e \in built.errors}

\* C9 (as claimed): the validation error names every violated constraint,
\* the date ordering included.
C9_AllViolationsReported ==
    pc = "constructed" => Reported = Violated(args)

\* C9 (amended): the validation error names every violated field constraint;
\* the date ordering is reported only when no field constraint is violated.
C9_FieldViolationsReported ==
    pc = "constructed" =>
        Reported = IF Violated(args) \ {"__root__"} # {}
                   THEN Violated(args) \ {"__root__"}
                   ELSE Violated(args)

\* Several field constraints are violated at once, and the ordering too.
C9_Witness ==
    /\ pc = "constructed"
    /\ Reported = {"currency_pair", "start_date", "output_file"}
    /\ args.start_date < args.end_date

HeaderLines(lines) == {i \in 1..Len(lines) : lines[i].kind = "header"}

\* C10: after any sequence of CSV exports to one path that did not exist,
\* the file has the header line exactly once, as its first line.
C10_HeaderOnceFirst ==
    \A path \in DOMAIN files :
        files[path].fmt = "csv" => HeaderLines(files[path].lines) = {1}

\* An append to the file a previous export left, which already has rows.
C10_Witness ==
    /\ nexports = 2
    /\ request.append_to_file
    /\ \E path \in DOMAIN files : Len(files[path].lines) = 5

(***************************************************************************)
(* Claims C11 - C20.                                                       *)
(***************************************************************************)
\* The rows a result contributes to a JSON document, and the dates of rows.
NewRows(res) ==
    [i \in 1..Len(res.data_points) |->
        [date |-> res.data_points[i].date_string, close |-> res.data_points[i].close_price]]

RowDates(rows) == {rows[i].date : i \in 1..Len(rows)}

\* The path holds a JSON object with historical_data and data_count.
Mergeable(fs, path) ==
    /\ path \in DOMAIN fs
    /\ fs[path].fmt = "json"
    /\ fs[path].data.shape = "object"
    /\ {"historical_data", "data_count"} \subseteq DOMAIN fs[path].data

\* C11: a JSON export in append mode onto an object with historical_data
\* keeps every existing entry, appends exactly the new rows whose date string
\* no existing entry has, replaces extraction_date by the new one and adds
\* the number of rows of the new result, discarded ones included, to
\* data_count.
C11_JsonAppendMerges ==
    [][\A k \in 1..Len(exports') :
          (/\ exports'[k].format_type = "json"
           /\ args'.append_to_file
           /\ Mergeable(files, exports'[k].file_path))
          => LET old == files[exports'[k].file_path].data
                 new == files'[exports'[k].file_path].data
                 rows == NewRows(result')
                 n == Len(old.historical_data)
             IN  /\ exports'[k].success
                 /\ SubSeq(new.historical_data, 1, n) = old.historical_data
                 /\ SubSeq(new.historical_data, n + 1, Len(new.historical_data)) =
                       SelectSeq(rows, LAMBDA r : r.date \notin RowDates(old.historical_data))
                 /\ new.extraction_date = result'.metadata.extraction_timestamp
                 /\ new.data_count = old.data_count + Len(rows)]_vars

\* Two rows appended onto the one-entry document: the row of the date already
\* present is discarded, the other appended, and both are counted.
C11_Witness ==
    /\ nexports = 1
    /\ args.append_to_file
    /\ Len(result.data_points) = 2
    /\ Mergeable(files, JsonPath)
    /\ files[JsonPath].data.historical_data =
          Append(ExistingDocument.historical_data,
                 [date |-> <<"2024", "-", "01", "-", "03">>, close |-> Decimal(<<"1", ".", "2">>)])
    /\ files[JsonPath].data.data_count = ExistingDocument.data_count + 2
    /\ files[JsonPath].data.extraction_date = Timestamp(1)

\* C12: with output_format BOTH the call returns two outcomes, the CSV one
\* first and the JSON one second; the JSON export runs on the file system the
\* CSV export left whether or not the CSV export succeeded, and the CSV
\* outcome and file stay as they were whether or not the JSON export succeeds.
C12_BothExportsRun ==
    [][args'.output_format = "both" =>
          LET c == _export_to_csv(files, result', args')
              j == _export_to_json(c.fs, result', JsonRequest(args'))
          IN  /\ pc' # "raised"
              /\ Len(exports') = 2
              /\ exports'[1].format_type = "csv"
              /\ exports'[2].format_type = "json"
              /\ exports'[1] = c.outcome
              /\ exports'[2] = j.outcome
              /\ files' = j.fs
              /\ c.outcome.success => files'[c.outcome.file_path] = c.fs[c.outcome.file_path]]_vars

\* The CSV export failed on a directory and the JSON export wrote its file.
C12_Witness ==
    /\ nexports = 1
    /\ args.output_format = "both"
    /\ Len(exports) = 2
    /\ ~exports[1].success
    /\ exports[1].file_path = CsvPath
    /\ exports[2].success
    /\ IsFile(files, JsonPath)
    /\ IsDir(files, CsvPath)

\* The states of a target path in which the export of an outcome cannot
\* complete, and the text of the exception each one produces.
Unwritable(fs, path) == path \in DOMAIN fs /\ fs[path].fmt = "dir"

LacksDataCount(fs, path) ==
    /\ path \in DOMAIN fs
    /\ fs[path].fmt = "json"
    /\ fs[path].data.shape = "object"
    /\ "historical_data" \in DOMAIN fs[path].data
    /\ "data_count" \notin DOMAIN fs[path].data

CannotComplete(fs, o, req) ==
    \/ Unwritable(fs, o.file_path)
    \/ o.format_type = "json" /\ req.append_to_file /\ LacksDataCount(fs, o.file_path)

ExceptionText(fs, o) ==
    IF Unwritable(fs, o.file_path) THEN "[Errno 21] Is a directory" ELSE "'data_count'"

\* C13: an export call never raises: whatever the target paths hold (nothing,
\* a directory, text that is not JSON, an object with historical_data and no
\* data_count, a JSON list) it returns one outcome per format; an export that
\* could not complete has success = false and the exception text as
\* error_message, every other one has success = true and no error_message.
C13_ExportNeverRaises ==
    [][/\ pc' # "raised"
       /\ Len(exports') = IF args'.output_format = "both" THEN 2 ELSE 1
       /\ \A k \in 1..Len(exports') :
             IF CannotComplete(files, exports'[k], args')
             THEN /\ ~exports'[k].success
                  /\ exports'[k].error_message = ExceptionText(files, exports'[k])
             ELSE /\ exports'[k].success
                  /\ exports'[k].error_message = None]_vars

\* A JSON append onto an object with historical_data and no data_count has
\* returned a failed outcome carrying the text of the KeyError.
C13_Witness ==
    /\ nexports = 1
    /\ pc = "idle"
    /\ Len(exports) = 1
    /\ exports[1].format_type = "json"
    /\ ~exports[1].success
    /\ exports[1].error_message = "'data_count'"
    /\ LacksDataCount(files, JsonPath)

\* C14: after export_result the request object the caller passed has, in
\* every field, the value it had before the call, output_file included, for
\* BOTH as for the single formats; the .json name exists only in the copy.
C14_RequestNotMutated ==
    nexports > 0 => request = args

\* A BOTH export of out.csv: the JSON outcome names out.json while the
\* request still names out.csv.
C14_Witness ==
    /\ nexports = 1
    /\ args.output_format = "both"
    /\ args.output_file = <<"out", ".csv">>
    /\ Len(exports) = 2
    /\ exports[2].file_path = JsonPath
    /\ exports[2].success
    /\ request.output_file = <<"out", ".csv">>

\* C15: once the fetch step is over, by a completed row scan or by a failure
\* of launch, navigation, landmark wait or content retrieval, the session
\* it opened is no longer open: closed by page.close() / browser.close() after
\* the scan, ended with the driver after a failure; no result is returned
\* while it is open.
C15_SessionReleased ==
    /\ pc \in {"except", "assemble", "save", "returned"} => session # "open"
    /\ pc \in {"assemble", "save"} => session = "closed"
    /\ (pc = "returned" /\ built.ok) => session \in {"none", "closed", "stopped"}
    /\ session = "open" => pc \in {"goto", "wait", "content"}

\* Navigation failed after the browser was launched, and the failed result
\* has been returned.
C15_Witness ==
    /\ pc = "returned"
    /\ error = "Page.goto: net::ERR_NAME_NOT_RESOLVED"
    /\ ~result.success
    /\ session = "stopped"

\* A result has been constructed by the pipeline (and possibly returned).
Constructed == pc \in {"save", "returned"}

\* C16: in every result the pipeline constructs or returns,
\* metadata.total_points is non-negative and equals the number of data
\* points; it is 0 in a failed result.
C16_TotalPointsIsCount ==
    Constructed =>
        /\ result.metadata.total_points >= 0
        /\ result.metadata.total_points = Len(result.data_points)
        /\ ~result.success => result.metadata.total_points = 0

\* A returned result with two data points and total_points = 2.
C16_Witness ==
    /\ pc = "returned"
    /\ result.success
    /\ Len(result.data_points) = 2
    /\ result.metadata.total_points = 2

PointDates(res) == {res.data_points[i].date : i \in 1..Len(res.data_points)}

\* C17: with data points, date_range_start is the latest and date_range_end
\* the earliest of their dates; without, they are the request's start_date
\* and end_date; in both cases
\* request.end_date <= date_range_end <= date_range_start <= request.start_date.
C17_DateRangeOfData ==
    Constructed =>
        /\ IF PointDates(result) # {}
           THEN /\ result.metadata.date_range_start \in PointDates(result)
                /\ result.metadata.date_range_end \in PointDates(result)
                /\ \A d \in PointDates(result) :
                      /\ d <= result.metadata.date_range_start
                      /\ d >= result.metadata.date_range_end
           ELSE /\ result.metadata.date_range_start = request.start_date
                /\ result.metadata.date_range_end = request.end_date
        /\ request.end_date <= result.metadata.date_range_end
        /\ result.metadata.date_range_end <= result.metadata.date_range_start
        /\ result.metadata.date_range_start <= request.start_date

\* Two data points of different dates strictly inside the requested range.
C17_Witness ==
    /\ pc = "returned"
    /\ Len(result.data_points) = 2
    /\ request.end_date < result.metadata.date_range_end
    /\ result.metadata.date_range_end < result.metadata.date_range_start
    /\ result.metadata.date_range_start < request.start_date

\* A name without its last token (its final extension, when it has one).
Stem(name) == SubSeq(name, 1, Len(name) - 1)

\* C18 (as claimed): with BOTH and an output_file given, a name ending in
\* .csv yields the JSON name with that trailing .csv replaced by .json and
\* nothing else changed, a name ending in neither .csv nor .json yields the
\* name with .json appended, and in both cases the CSV and JSON file names
\* differ only in their final extension.
C18_JsonNameFromCsvBase ==
    (/\ nexports > 0
     /\ args.output_format = "both"
     /\ args.output_file # NoText
     /\ ~EndsWith(args.output_file, ".json"))
    => LET csv_name == exports[1].file_path.name
           json_name == exports[2].file_path.name
       IN  /\ json_name =
                 IF EndsWith(args.output_file, ".csv")
                 THEN Append(Stem(args.output_file), ".json")
                 ELSE Append(args.output_file, ".json")
           /\ csv_name[Len(csv_name)] = ".csv"
           /\ json_name[Len(json_name)] = ".json"
           /\ Stem(csv_name) = Stem(json_name)

\* The formats in the order of the claim, and the day a text spells in the
\* k-th of them.
ClaimedFormats == <<"%b %d, %Y", "%B %d, %Y", "%Y-%m-%d", "%m/%d/%Y", "%d/%m/%Y">>

Exists(y, m, d) == m \in 1..12 /\ d \in 1..DaysInMonth(y, m)

Day(y, m, d) == y * 10000 + m * 100 + d

Spells(text, y, m, d, k) == Exists(y, m, d) /\ Strip(text, " ") = Spelling(y, m, d, k)

\* The result is the parse of the first claimed format that matches, and
\* null when none matches.
FirstMatchReturned ==
    LET s == Strip(args.date_str, " ")
        matching == {i \in 1..5 : strptime(s, ClaimedFormats[i]) # NoDate}
    IN  IF matching = {} THEN built.value = NoDate
        ELSE \E i \in matching :
                /\ \A j \in matching : i <= j
                /\ built.value = strptime(s, ClaimedFormats[i])

\* C19 (as claimed): the result is the parse of the first matching format,
\* null when none matches, and each of the five spellings of a calendar
\* date yields that date.
C19_FirstFormatAllSpellings ==
    pc = "parsed" =>
        /\ FirstMatchReturned
        /\ \A y \in SpelledYears, m \in SpelledMonths, d \in SpelledDays, k \in 1..5 :
              Spells(args.date_str, y, m, d, k) => built.value = Day(y, m, d)

\* C19 (amended): the result is the parse of the first matching format, null
\* when none matches; the first four spellings of a calendar date yield that
\* date, and the DD/MM/YYYY spelling yields it when the day is above 12 or
\* equal to the month, and the date with day and month exchanged otherwise.
C19_FirstFormatMonthFirst ==
    pc = "parsed" =>
        /\ FirstMatchReturned
        /\ \A y \in SpelledYears, m \in SpelledMonths, d \in SpelledDays, k \in 1..5 :
              Spells(args.date_str, y, m, d, k) =>
                  built.value = IF k = 5 /\ d <= 12 THEN Day(y, d, m) ELSE Day(y, m, d)

\* 06/01/2024, the DD/MM/YYYY spelling of 6 January, is read as 1 June.
C19_Witness ==
    /\ pc = "parsed"
    /\ args.date_str = Spelling(2024, 1, 6, 5)
    /\ built.value = Day(2024, 6, 1)

\* What a call returns and leaves in an empty output directory when it runs
\* alone.
AloneResult(c) ==
    IF args[c].failure = None
    THEN ResultOf(args[c].page, RequestOf(args[c]), Timestamp(c))
    ELSE ForexExtractionResult(<<>>, ExtractionMetadata(RequestOf(args[c]), Timestamp(c)),
             FALSE, args[c].failure)

AloneFiles(c) ==
    IF args[c].failure = None
    THEN export_result(<<>>, AloneResult(c), RequestOf(args[c])).fs
    ELSE <<>>

\* C20: in every interleaving of concurrent extractions with output files of
\* their own, each call that has returned has the result it returns when
\* run alone, its request is as it was built, its files are those it leaves
\* when run alone, and the output directory holds nothing else.
C20_ConcurrentCallsIndependent ==
    /\ \A c \in Calls :
          pc[c] = "returned" =>
              /\ result[c].success = AloneResult(c).success
              /\ result[c].error_message = AloneResult(c).error_message
              /\ result[c] = AloneResult(c)
              /\ request[c] = RequestOf(args[c])
              /\ \A path \in DOMAIN AloneFiles(c) :
                    path \in DOMAIN files /\ files[path] = AloneFiles(c)[path]
    /\ DOMAIN files = UNION {DOMAIN AloneFiles(c) : c \in {k \in Calls : pc[k] = "returned"}}

\* Two calls have returned different successful results, each with its CSV
\* and its JSON file.
C20_Witness ==
    /\ \A c \in Calls : pc[c] = "returned" /\ result[c].success
    /\ Len(result[1].data_points) # Len(result[2].data_points)
    /\ Cardinality(DOMAIN files) = 4

(***************************************************************************)
(* Claims C21 - C30.                                                       *)
(***************************************************************************)
\* The rows of the document at out.json.
StoredRows == files[JsonPath].data.historical_data

\* The exporter whose write is the one the file holds.
LastWriter(c) == files[JsonPath].data.extraction_date = Timestamp(c)

\* C21: nothing excludes concurrent exports to one path from each other.
\* Every exporter reports success, and the file holds what the last writer
\* made of the file it had loaded: the rows loaded followed by its own new
\* dates, and none of what the others wrote after that load.
C21_LastWriterWins ==
    (\A c \in Calls : pc[c] = "done") =>
        /\ \A c \in Calls : Len(exports[c]) = 1 /\ exports[c][1].success
        /\ \A c \in Calls :
              LastWriter(c) =>
                  StoredRows =
                      IF html[c] = <<>> THEN NewRows(result[c])
                      ELSE html[c][1].data.historical_data \o
                           SelectSeq(NewRows(result[c]),
                               LAMBDA r : r.date \notin RowDates(html[c][1].data.historical_data))

\* Both exporters loaded the prior document before either wrote: both
\* report success and the row of 2024-01-03 the second one added is not in
\* the file, which the first one wrote last.
C21_Witness ==
    /\ \A c \in Calls : pc[c] = "done" /\ exports[c][1].success
    /\ \A c \in Calls : html[c] = <<JsonFile(ExistingDocument)>>
    /\ LastWriter(1)
    /\ <<"2024", "-", "01", "-", "03">> \in RowDates(NewRows(result[2]))
    /\ <<"2024", "-", "01", "-", "03">> \notin RowDates(StoredRows)

\* C22: an extraction that has started eventually returns; a failure is
\* followed by the return and by nothing else, the navigation is entered
\* only from the launch, so it is never repeated, and once a result is
\* returned neither it nor anything else changes.
C22_TerminatesWithOneResult ==
    /\ (pc = "launch") ~> (pc = "returned")
    /\ [][/\ pc = "except" => pc' = "returned"
          /\ pc' = "goto" => pc = "launch"
          /\ pc # "returned"]_vars

\* The navigation failed, no page was ever read, and the failed result has
\* been returned.
C22_Witness ==
    /\ pc = "returned"
    /\ error = "Page.goto: net::ERR_NAME_NOT_RESOLVED"
    /\ html = <<>>
    /\ result.data_points = <<>>
    /\ result.error_message = error

\* Every call so far was made in append mode.
AppendOnly == \A i \in 1..Len(args) : args[i].append_to_file

\* No two entries of the rows carry the same date string.
DistinctDates(rows) ==
    \A i, k \in 1..Len(rows) : rows[i].date = rows[k].date => i = k

\* C23: after any sequence of JSON exports in append mode to a path that did
\* not exist at first, no two entries of historical_data have the same date
\* string, whatever the results held.
C23_NoTwoEntriesShareADate ==
    (nexports > 0 /\ AppendOnly /\ JsonPath \in DOMAIN files)
        => DistinctDates(StoredRows)

\* The document the call before left at out.json.
StoredBefore == built.fs[JsonPath].data

Ascending(points) ==
    \A i \in 1..(Len(points) - 1) : points[i].date <= points[i + 1].date

\* C25: CSV export suppresses no duplicates.  An append-mode export adds the
\* rows of its result, all of them and in ascending date order, after what
\* the file holds, with the header first when the file did not exist; so k
\* appends of one n-point result leave one header and k*n rows.
C25_CsvAppendsEveryRow ==
    [][request'.append_to_file
         => /\ CsvPath \in DOMAIN files'
            /\ files'[CsvPath].lines =
                  (IF CsvPath \in DOMAIN files THEN files[CsvPath].lines ELSE <<CsvHeader>>)
                      \o to_csv_rows(result')
            /\ Ascending(result'.data_points)
            /\ exports'[1].success]_vars

\* Three appends of one two-row result to a path that did not exist: the
\* header and three times the same two rows.
C25_Witness ==
    /\ nexports = 3
    /\ request.append_to_file
    /\ CsvPath \in DOMAIN files
    /\ Len(result.data_points) = 2
    /\ result.data_points[1].date < result.data_points[2].date
    /\ files[CsvPath].lines =
          <<CsvHeader>> \o to_csv_rows(result) \o to_csv_rows(result) \o to_csv_rows(result)

\* The last call created the file or wrote it anew.
CreatedOrOverwrote == ~request.append_to_file \/ JsonPath \notin DOMAIN built.fs

\* C26: after any sequence of successful JSON exports, in either mode, to a
\* path that did not exist at first, data_count is at least the length of
\* historical_data, and equal to it after an export that created or
\* overwrote the file.
C26_DataCountCoversRows ==
    (nexports > 0 /\ exports[1].success)
        => /\ JsonPath \in DOMAIN files
           /\ files[JsonPath].data.data_count >= Len(StoredRows)
           /\ CreatedOrOverwrote => files[JsonPath].data.data_count = Len(StoredRows)

\* An append whose two rows met one stored date: three counted, two stored.
C26_Witness ==
    /\ nexports = 2
    /\ exports[1].success
    /\ request.append_to_file
    /\ JsonPath \in DOMAIN built.fs
    /\ Len(result.data_points) = 2
    /\ files[JsonPath].data.data_count = 3
    /\ Len(StoredRows) = 2
    /\ StoredRows[1].date # StoredRows[2].date

\* C27: every successful export outcome, CSV or JSON, reports rows_written
\* equal to the number of data points of the exported result, also when the
\* JSON merge appended fewer rows or none.
C27_RowsWrittenIsPointCount ==
    \A i \in 1..Len(exports) :
        exports[i].success => exports[i].rows_written = Len(result.data_points)

\* A JSON append of one row whose date the file already held: nothing was
\* appended to the one stored entry, and one row is reported.
C27_Witness ==
    /\ nexports = 1
    /\ args.append_to_file
    /\ args.output_format = "json"
    /\ Len(result.data_points) = 1
    /\ exports[1].success
    /\ exports[1].rows_written = 1
    /\ exports[1].file_path = JsonPath
    /\ JsonPath \in DOMAIN files
    /\ files[JsonPath].fmt = "json"
    /\ files[JsonPath].data.shape = "object"
    /\ "data_count" \in DOMAIN files[JsonPath].data
    /\ files[JsonPath].data.data_count = 4
    /\ files[JsonPath].data.historical_data = ExistingDocument.historical_data

\* C28: a failed export never changes the extraction outcome.  When the
\* fetch and the parsing succeeded, extract_forex_data returns success = true
\* with all data points and no error_message, whatever the export did.
C28_ExportFailureNotInResult ==
    (pc = "returned" /\ session = "closed")
        => /\ result.success
           /\ result.error_message = None
           /\ result.data_points = _convert_to_data_points(raw_data)
           /\ error = None

\* Both halves of a BOTH export failed and the result with its data points
\* was returned as a success.
C28_Witness ==
    /\ pc = "returned"
    /\ session = "closed"
    /\ request.output_format = "both"
    /\ Len(exports) = 2
    /\ ~exports[1].success
    /\ ~exports[2].success
    /\ result.success
    /\ Len(result.data_points) = 2

\* A JSON half that failed in the merge, after a CSV half that succeeded.
C28_WitnessMerge ==
    /\ pc = "returned"
    /\ Len(exports) = 2
    /\ exports[1].success
    /\ ~exports[2].success
    /\ exports[2].error_message = "'data_count'"
    /\ result.success

\* The file at the path is an object with historical_data one of whose
\* entries is not an object.
HasNonObjectEntry(fs, path) ==
    /\ path \in DOMAIN fs
    /\ fs[path].fmt = "json"
    /\ fs[path].data.shape = "object"
    /\ "historical_data" \in DOMAIN fs[path].data
    /\ \E i \in 1..Len(fs[path].data.historical_data) :
          ~IsObject(fs[path].data.historical_data[i])

\* C29: a JSON append export that fails while merging with the existing file
\* (no data_count next to historical_data, or an entry of historical_data
\* that is not an object) has the outcome success = false and leaves the
\* file's content exactly as it was before the call.
C29_FailedMergeKeepsFile ==
    [][\A k \in 1..Len(exports') :
          LET path == exports'[k].file_path
          IN  (/\ exports'[k].format_type = "json"
               /\ args'.append_to_file
               /\ LacksDataCount(files, path) \/ HasNonObjectEntry(files, path))
                  => /\ ~exports'[k].success
                     /\ path \in DOMAIN files'
                     /\ files'[path] = files[path]]_vars

\* The append onto the document with a string entry failed on the entry, and
\* the document is still in the file.
C29_Witness ==
    /\ nexports = 1
    /\ args.append_to_file
    /\ args.output_format = "json"
    /\ Len(result.data_points) = 2
    /\ ~exports[1].success
    /\ exports[1].error_message = "'str' object has no attribute 'get'"
    /\ exports[1].file_path = JsonPath
    /\ files[JsonPath] =
          JsonFile([ExistingDocument EXCEPT !.historical_data = Append(@, JsonString)])

\* The name is one file-name component: not empty, without a separator, and
\* neither the directory itself nor its parent.
SingleComponent(name) ==
    /\ name # <<>>
    /\ name \notin {<<".">>, <<"..">>}
    /\ \A i \in 1..Len(name) : name[i] \notin {"/", "\\"}

InsideOutputDirectory(path) == path.dir = OutputDir /\ SingleComponent(path.name)

\* C30: every file an export writes is directly inside the exporter's output
\* directory: for every accepted request, and for the copy derived for BOTH,
\* the path written is output_directory joined with one file-name component.
C30_WritesInsideOutputDirectory ==
    (nexports > 0 /\ validate_output_file(args.output_file).ok)
        => /\ \A path \in DOMAIN files : InsideOutputDirectory(path)
           /\ \A i \in 1..Len(exports) :
                 exports[i].success
                    => /\ exports[i].file_path \in DOMAIN files
                       /\ InsideOutputDirectory(exports[i].file_path)

\* A BOTH export asked to write to ".." wrote "...csv" and "...json" in the
\* output directory.
C30_Witness ==
    /\ nexports = 1
    /\ args.output_file = <<"..">>
    /\ args.output_format = "both"
    /\ Len(exports) = 2
    /\ exports[1].success
    /\ exports[2].success
    /\ exports[1].file_path = [dir |-> OutputDir, name |-> <<"..", ".csv">>]
    /\ exports[2].file_path = [dir |-> OutputDir, name |-> <<"..", ".json">>]
    /\ {exports[1].file_path, exports[2].file_path} \subseteq DOMAIN files

====
